---- MODULE Spec2Model ----
(***************************************************************************)
(* Model of the fotoscdo image service: the GPS fallback pipeline          *)
(* (ImageService.extract_gps_from_original, in its service and diagnostic  *)
(* copies) and the adaptive JPEG compressor                                *)
(* (ImageService.compress_to_target_jpeg).                                 *)
(*                                                                         *)
(* Library calls (Pillow, piexif, exifread, ElementTree, re) are not part  *)
(* of the repository: what they return for a given byte string is an input *)
(* of the model, drawn from small sets; what the repository does with the  *)
(* returned values is translated from the source.                          *)
(***************************************************************************)
EXTENDS Integers, Sequences, FiniteSets, TLC

VARIABLES
    \* ---- compress_to_target_jpeg ----
    c_pc,           \* position in compress_to_target_jpeg
    c_in,           \* the call's arguments and what Pillow makes of `data`
    exif_preserve,  \* local exif_preserve
    quality,        \* local quality
    b,              \* local b: the last encoding produced
    encodes,        \* the img.save calls made so far, in order
    iters,          \* executions of the while body so far
    c_ret,          \* the returned tuple
    \* ---- extract_gps_from_original ----
    g_impl,         \* which copy runs: "service" (image_service.py) or "diag" (diagnose_gps.py)
    g_pc,           \* position in extract_gps_from_original
    g_in,           \* original_bytes and compressed_img, as the libraries read them
    g_trace,        \* the stages run so far, each with the value it produced
    g_ret,          \* the returned value
    payload,        \* ingest_sftp: payload.lon and payload.lat
    geom,           \* ingest_sftp: the Point built from the resolved coordinate
    \* ---- single resolvers and utilities ----
    u_call,         \* the function called, its argument and what it returned
    \* ---- repeated invocations on the same objects ----
    r_in,           \* the image and the original bytes handed to every invocation
    r_log,          \* the invocations made so far, each with what it was handed and returned
    \* ---- ingest_sftp ----
    i_pc,           \* position in ingest_sftp
    i_in,           \* the request and what its collaborators do with it
    i_steps,        \* the calls ingest_sftp has made so far, in order
    db,             \* the record store: the Photo records committed
    \* ---- SFTPClient ----
    s_pc,           \* position in fetch_bytes / healthy
    s_in,           \* the method called and the step of it that fails, if any
    s_transport,    \* the paramiko.Transport of the call: "none", "open" or "closed"
    s_sftp,         \* the paramiko.SFTPClient of the call: "none", "open" or "closed"
    s_calls         \* the method calls started so far

cvars == <<c_pc, c_in, exif_preserve, quality, b, encodes, iters, c_ret>>
gvars == <<g_impl, g_pc, g_in, g_trace, g_ret, payload, geom>>
rvars == <<r_in, r_log>>
ivars == <<i_pc, i_in, i_steps, db>>
svars == <<s_pc, s_in, s_transport, s_sftp, s_calls>>
vars == <<c_pc, c_in, exif_preserve, quality, b, encodes, iters, c_ret,
          g_impl, g_pc, g_in, g_trace, g_ret, payload, geom, u_call, r_in, r_log,
          i_pc, i_in, i_steps, db, s_pc, s_in, s_transport, s_sftp, s_calls>>

\* Python's None, where the other values are positive integers.
None == 0

Max(x, y) == IF x >= y THEN x ELSE y

(***************************************************************************)
(* Bounds of the model.                                                    *)
(***************************************************************************)
\* Encoded sizes are drawn from 1..MaxSize.
MaxSize == 3
\* target_bytes is drawn from 0..MaxTarget.
MaxTarget == 3
\* EXIF blocks embedded in an input image are drawn from 1..MaxExif.
MaxExif == 2

\* Denominators of EXIF rationals are drawn from 0..MaxDen.
MaxDen == 2
\* Whole degrees of the sample coordinates are drawn from 1..MaxDeg.
MaxDeg == 2

(***************************************************************************)
(* Values.  A Python float x is represented exactly, by the integer        *)
(* x * Scale; Scale is a multiple of 3600 and of every denominator in use, *)
(* so d + m/60 + s/3600 and n/d are computed without rounding.  A Python   *)
(* str or bytes value is a sequence of one-character strings.  An          *)
(* operation that can raise yields an outcome: Ok(v) or Raised.            *)
(***************************************************************************)
RECURSIVE Factorial(_)
Factorial(n) == IF n <= 1 THEN 1 ELSE n * Factorial(n - 1)

DenLcm == Factorial(MaxDen)
Scale == 3600 * DenLcm

Ok(v) == [exc |-> FALSE, val |-> v]
Raised == [exc |-> TRUE, val |-> <<>>]

\* try: ... except Exception: return None
CatchNone(o) == IF o.exc THEN Ok(<<>>) ELSE o

\* A resolver's "no coordinate" (None); a coordinate is the pair <<lon, lat>>.
NoGps == <<>>

\* One call of a resolver or utility on its own: the function, its argument
\* and the outcome; NoCall before any call is made.
Call(fn, arg, res) == [fn |-> fn, arg |-> arg, res |-> res]
NoCall == Call("none", <<>>, <<>>)
\* No repeated invocation is under way.
RIdle == r_in = <<>> /\ r_log = <<>>
\* No request is being ingested; no SFTPClient method is running.
IIdle == i_pc = "idle" /\ i_in = <<>> /\ i_steps = <<>> /\ db = <<>>
SIdle ==
    /\ s_pc = "idle" /\ s_in = <<>> /\ s_calls = 0
    /\ s_transport = "none" /\ s_sftp = "none"

Digits == {"0", "1", "2", "3", "4", "5", "6", "7", "8", "9"}
DigitVal(c) ==
    CASE c = "0" -> 0 [] c = "1" -> 1 [] c = "2" -> 2 [] c = "3" -> 3
      [] c = "4" -> 4 [] c = "5" -> 5 [] c = "6" -> 6 [] c = "7" -> 7
      [] c = "8" -> 8 [] c = "9" -> 9

RECURSIVE DigitsValue(_)
DigitsValue(t) ==
    IF t = <<>> THEN 0
    ELSE 10 * DigitsValue(SubSeq(t, 1, Len(t) - 1)) + DigitVal(t[Len(t)])

RECURSIVE Pow10(_)
Pow10(k) == IF k = 0 THEN 1 ELSE 10 * Pow10(k - 1)

\* str.strip(): leading and trailing blanks removed.
RECURSIVE LStrip(_)
LStrip(t) == IF t # <<>> /\ t[1] = " " THEN LStrip(Tail(t)) ELSE t
RECURSIVE RStrip(_)
RStrip(t) ==
    IF t # <<>> /\ t[Len(t)] = " " THEN RStrip(SubSeq(t, 1, Len(t) - 1)) ELSE t
Strip(t) == LStrip(RStrip(t))

\* str.strip(c) for a single character c.
RECURSIVE StripChar(_, _)
StripChar(t, c) ==
    IF t # <<>> /\ t[1] = c THEN StripChar(Tail(t), c)
    ELSE IF t # <<>> /\ t[Len(t)] = c THEN StripChar(SubSeq(t, 1, Len(t) - 1), c)
    ELSE t

\* str.replace(c, ""): every occurrence of the character c removed.
Remove(t, c) == SelectSeq(t, LAMBDA x : x # c)

\* str.replace(c, r) for single characters.
Replace(t, c, r) == [i \in 1..Len(t) |-> IF t[i] = c THEN r ELSE t[i]]

\* The index of the first c in t, or 0.
RECURSIVE IndexFrom(_, _, _)
IndexFrom(t, c, i) ==
    IF i > Len(t) THEN 0 ELSE IF t[i] = c THEN i ELSE IndexFrom(t, c, i + 1)
Index(t, c) == IndexFrom(t, c, 1)

\* str.split(c): the pieces of t between the occurrences of c.
RECURSIVE Split(_, _)
SplitAt(t, c, i) ==
    IF i = 0 THEN <<t>>
    ELSE <<SubSeq(t, 1, i - 1)>> \o Split(SubSeq(t, i + 1, Len(t)), c)
Split(t, c) == SplitAt(t, c, Index(t, c))

AllDigits(t) == \A i \in 1..Len(t) : t[i] \in Digits

Abs(x) == IF x < 0 THEN 0 - x ELSE x

\* An outcome's value times k, or the exception passed on.
Times(o, k) == IF o.exc THEN Raised ELSE Ok(k * o.val)

\* float(text) for texts over digits, sign, point and blanks: blanks are
\* stripped, then [sign] digits [. digits] or [sign] . digits is accepted
\* and anything else raises ValueError.
FloatOfParts(ip, fp) ==
    IF AllDigits(ip) /\ AllDigits(fp) /\ Len(ip) + Len(fp) > 0
    THEN Ok(DigitsValue(ip) * Scale + (DigitsValue(fp) * Scale) \div Pow10(Len(fp)))
    ELSE Raised
FloatAtPoint(u, i) ==
    FloatOfParts(IF i = 0 THEN u ELSE SubSeq(u, 1, i - 1),
                 IF i = 0 THEN <<>> ELSE SubSeq(u, i + 1, Len(u)))
FloatOfUnsigned(u) == FloatAtPoint(u, Index(u, "."))
FloatOfStripped(t) ==
    IF t = <<>> THEN Raised
    ELSE Times(FloatOfUnsigned(IF t[1] \in {"+", "-"} THEN Tail(t) ELSE t),
               IF t[1] = "-" THEN 0 - 1 ELSE 1)
Float(text) == FloatOfStripped(Strip(text))

\* x / y for floats x, y: ZeroDivisionError when y is 0.
Quotient(x, y) ==
    IF y % Scale = 0 THEN x \div (y \div Scale) ELSE (x * Scale) \div y
Divide(a, bb) ==
    IF a.exc \/ bb.exc THEN Raised
    ELSE IF bb.val = 0 THEN Raised
    ELSE Ok(Quotient(a.val, bb.val))

(***************************************************************************)
(* GPS / date utilities of ImageService.                                   *)
(***************************************************************************)
\* The conversion taking a zero denominator for the value 0.
RatioToFloatZero(r) == IF r[2] = 0 THEN Ok(0) ELSE Ok((r[1] * Scale) \div r[2])

\* _ratio_to_float: float(r[0]) / float(r[1]); when that raises
\* (ZeroDivisionError on a zero denominator) float(r) is tried, which raises
\* TypeError for the tuple r.
RatioToFloat(r) == IF r[2] = 0 THEN Raised ELSE Ok((r[1] * Scale) \div r[2])

\* _dms_to_dd: dd = d + m/60 + s/3600, negated when ref in (b"S", b"W", "S", "W").
DmsToDd(d, m, s, ref) ==
    IF ref \in {<<"S">>, <<"W">>}
    THEN 0 - (d + (m \div 60) + (s \div 3600))
    ELSE d + (m \div 60) + (s \div 3600)

\* _parse_exifread_frac: "a/b" -> float(a) / float(b or 1), else float(s).
FracAtSlash(t, i) ==
    IF i # 0
    THEN Divide(Float(SubSeq(t, 1, i - 1)),
                IF i = Len(t) THEN Ok(Scale) ELSE Float(SubSeq(t, i + 1, Len(t))))
    ELSE Float(t)
FracOfStripped(t) == FracAtSlash(t, Index(t, "/"))
ParseExifreadFrac(text) == FracOfStripped(Strip(text))

\* _parse_exifread_dms: None (here <<>>) or the triple <<deg, min, sec>>.
ExifreadParts(raw) ==
    [i \in 1..Len(raw) |-> StripChar(StripChar(Strip(raw[i]), "\""), "'")]
Triple(deg, minu, sec) ==
    IF deg.exc \/ minu.exc \/ sec.exc THEN Raised
    ELSE Ok(<<deg.val, minu.val, sec.val>>)
\* The parser asking for exactly three components.
DmsOfThreeParts(parts) ==
    IF Len(parts) # 3 THEN Ok(<<>>)
    ELSE Triple(ParseExifreadFrac(parts[1]), ParseExifreadFrac(parts[2]),
                ParseExifreadFrac(parts[3]))

DmsOfParts(parts) ==
    IF Len(parts) < 2 THEN Ok(<<>>)
    ELSE Triple(ParseExifreadFrac(parts[1]),
                ParseExifreadFrac(parts[2]),
                IF Len(parts) > 2 THEN ParseExifreadFrac(parts[3]) ELSE Ok(0))
ParseExifreadDmsBody(value) ==
    DmsOfParts(ExifreadParts(Split(Remove(Remove(Strip(value), "["), "]"), ",")))
ParseExifreadDms(value) == CatchNone(ParseExifreadDmsBody(value)).val

\* _extract_gps_from_piexif_bytes and, in the diagnostic copy,
\* _gps_from_piexif_bytes.  An EXIF block is [present, loadable, gps]:
\* whether the image exposes EXIF bytes at all, whether piexif.load accepts
\* them, and the GPS IFD it returns.  A GPS IFD is [lat, lat_ref, lon,
\* lon_ref]; a tag the IFD lacks is <<>>, as falsy as what .get() returns.
DdOfFloats(d, m, s, ref) ==
    IF d.exc \/ m.exc \/ s.exc THEN Raised
    ELSE Ok(DmsToDd(d.val, m.val, s.val, ref))
RationalsToDd(v, ref) ==
    DdOfFloats(RatioToFloat(v[1]),
               IF Len(v) > 1 THEN RatioToFloat(v[2]) ELSE Ok(0),
               IF Len(v) > 2 THEN RatioToFloat(v[3]) ELSE Ok(0),
               ref)

\* The pair built latitude first.
LatLon(lon_dd, lat_dd) ==
    IF lat_dd.exc \/ lon_dd.exc THEN Raised ELSE Ok(<<lat_dd.val, lon_dd.val>>)
\* gps = (lon_dd, lat_dd)
LonLat(lon_dd, lat_dd) ==
    IF lat_dd.exc \/ lon_dd.exc THEN Raised ELSE Ok(<<lon_dd.val, lat_dd.val>>)

\* The resolver asking for the two value tags only.
PiexifGpsRefsOptional(g) ==
    IF ~(g.lat # <<>> /\ g.lon # <<>>)
    THEN Ok(NoGps)
    ELSE LonLat(RationalsToDd(g.lon, g.lon_ref), RationalsToDd(g.lat, g.lat_ref))
PiexifGps(g) ==
    IF ~(g.lat # <<>> /\ g.lat_ref # <<>> /\ g.lon # <<>> /\ g.lon_ref # <<>>)
    THEN Ok(NoGps)
    ELSE LonLat(RationalsToDd(g.lon, g.lon_ref), RationalsToDd(g.lat, g.lat_ref))

ExtractGpsFromPiexifBytesBody(block) ==
    IF ~block.loadable THEN Raised ELSE PiexifGps(block.gps)

ExtractGpsFromPiexifBytes(block) == CatchNone(ExtractGpsFromPiexifBytesBody(block))

\* _extract_gps_with_exifread.  What exifread.process_file makes of the
\* bytes is [raises, lat, lat_ref, lon, lon_ref]; a tag is [present, text],
\* text being what str() prints for it.
ExifreadLonLat(lat_dms, lon_dms, lat_ref, lon_ref) ==
    IF ~(lat_dms # <<>> /\ lon_dms # <<>>) THEN Ok(NoGps)
    ELSE Ok(<<DmsToDd(lon_dms[1], lon_dms[2], lon_dms[3], lon_ref),
              DmsToDd(lat_dms[1], lat_dms[2], lat_dms[3], lat_ref)>>)

ExtractGpsWithExifreadBody(tags) ==
    IF tags.raises THEN Raised
    ELSE IF ~(tags.lat.present /\ tags.lat_ref.present
              /\ tags.lon.present /\ tags.lon_ref.present)
    THEN Ok(NoGps)
    ELSE ExifreadLonLat(ParseExifreadDms(tags.lat.text), ParseExifreadDms(tags.lon.text),
                        tags.lat_ref.text, tags.lon_ref.text)

ExtractGpsWithExifread(tags) == CatchNone(ExtractGpsWithExifreadBody(tags))

(***************************************************************************)
(* The resolvers that only the diagnostic copy (diagnose_gps.py) has.      *)
(***************************************************************************)
\* str.upper() on the reference letters.
UpperChar(c) ==
    CASE c = "s" -> "S" [] c = "w" -> "W" [] c = "n" -> "N" [] c = "e" -> "E"
      [] OTHER -> c
Upper(t) == [i \in 1..Len(t) |-> UpperChar(t[i])]
StartsWith(t, c) == t # <<>> /\ t[1] = c

\* _frac_to_float: the value, or None (here Raised marks None) on any error.
FracToFloat(text) == FracOfStripped(Strip(text))

\* _coord_str_to_decimal: the decimal value, or None (here Raised marks None).
\* A seconds part that _frac_to_float rejects counts as 0.0.
ValueOrZero(o) == IF o.exc THEN 0 ELSE o.val
DecimalOf(deg, minu, sec, ref) ==
    IF deg.exc \/ minu.exc THEN Raised
    ELSE IF StartsWith(Upper(ref), "S") \/ StartsWith(Upper(ref), "W")
    THEN Ok(0 - Abs(deg.val + (minu.val \div 60) + (sec \div 3600)))
    ELSE Ok(deg.val + (minu.val \div 60) + (sec \div 3600))
DecimalOfParts(partes, ref) ==
    IF Len(partes) < 2 THEN Raised
    ELSE DecimalOf(Float(partes[1]), Float(partes[2]),
                   IF Len(partes) > 2 THEN ValueOrZero(FracToFloat(partes[3])) ELSE 0,
                   ref)
CoordParts(raw) == [i \in 1..Len(raw) |-> Strip(raw[i])]
CoordStrToDecimal(coord_str, ref) ==
    DecimalOfParts(
        CoordParts(Split(Remove(Remove(Remove(Remove(Strip(coord_str), "\""), "'"), "["), "]"),
                         ",")),
        ref)

\* (lon, lat) of two parsed numbers, None when either is missing; the tail
\* of _gps_from_exifread_bytes and of _find_iso6709.
LonLatOrNone(lat_dd, lon_dd) ==
    IF lat_dd.exc \/ lon_dd.exc THEN Ok(NoGps) ELSE Ok(<<lon_dd.val, lat_dd.val>>)

\* _gps_from_exifread_bytes
GpsFromExifreadBytes(tags) ==
    IF tags.raises THEN Ok(NoGps)
    ELSE IF ~(tags.lat.present /\ tags.lon.present
              /\ tags.lat_ref.present /\ tags.lon_ref.present)
    THEN Ok(NoGps)
    ELSE LonLatOrNone(CoordStrToDecimal(tags.lat.text, tags.lat_ref.text),
                    CoordStrToDecimal(tags.lon.text, tags.lon_ref.text))

\* _extract_xmp_packet: whether a packet is returned.  What the bytes hold
\* of XMP is [open, close, wellformed, lat, lon, lat_ref, lon_ref]: whether
\* the opening and the closing marker are found, whether ET.fromstring
\* accepts the packet, and the stripped text of the four elements (<<>> for
\* an element that is missing or empty).
ExtractXmpPacket(x) == x.open /\ x.close

\* to_float inside _parse_xmp_gps: None (here Raised marks None) or the value.
XmpToFloat(t) == IF t = <<>> THEN Raised ELSE Float(Replace(t, ",", "."))

\* _parse_xmp_gps
XmpLonLat(lat, lon, lat_ref, lon_ref) ==
    IF lat.exc \/ lon.exc THEN Ok(NoGps)
    ELSE Ok(<<IF StartsWith(Upper(lon_ref), "W") THEN 0 - Abs(lon.val) ELSE lon.val,
              IF StartsWith(Upper(lat_ref), "S") THEN 0 - Abs(lat.val) ELSE lat.val>>)
ParseXmpGpsBody(x) ==
    IF ~x.wellformed THEN Raised
    ELSE XmpLonLat(XmpToFloat(x.lat), XmpToFloat(x.lon), x.lat_ref, x.lon_ref)

ParseXmpGps(x) == CatchNone(ParseXmpGpsBody(x))

\* _find_iso6709.  What the bytes hold is [marker, match, lat, lon]: whether
\* the key is found, whether the pattern matches in the 512 bytes from it,
\* and the text of the first two groups.
FindIso6709(q) ==
    IF ~q.marker THEN Ok(NoGps)
    ELSE IF ~q.match THEN Ok(NoGps)
    ELSE LonLatOrNone(Float(q.lat), Float(q.lon))

(***************************************************************************)
(* Inputs of the GPS pipeline.                                             *)
(***************************************************************************)
\* str(n) for n >= 0.
DigitChar(k) ==
    CASE k = 0 -> "0" [] k = 1 -> "1" [] k = 2 -> "2" [] k = 3 -> "3" [] k = 4 -> "4"
      [] k = 5 -> "5" [] k = 6 -> "6" [] k = 7 -> "7" [] k = 8 -> "8" [] k = 9 -> "9"
RECURSIVE DigitsOf(_)
DigitsOf(n) ==
    IF n < 10 THEN <<DigitChar(n)>> ELSE DigitsOf(n \div 10) \o <<DigitChar(n % 10)>>

GpsIfd(lat, lat_ref, lon, lon_ref) ==
    [lat |-> lat, lat_ref |-> lat_ref, lon |-> lon, lon_ref |-> lon_ref]

\* A GPS IFD with all four tags: k deg 30' (1/MaxDen)" N, (k+10) deg 15' 0" W.
GoodIfd(k) ==
    GpsIfd(<< <<k, 1>>, <<30, 1>>, <<1, MaxDen>> >>, <<"N">>,
           << <<k + 10, 1>>, <<15, 1>>, <<0, 1>> >>, <<"W">>)

EmptyIfd == GpsIfd(<<>>, <<>>, <<>>, <<>>)

\* The GPS IFDs the pipeline is run on: none of the tags, all four tags, one
\* of the four missing, all four with a zero denominator in one rational, and
\* all four with 200 degrees of longitude.
PipelineIfds ==
    {EmptyIfd}
    \cup {GoodIfd(k) : k \in 1..MaxDeg}
    \cup {[GoodIfd(1) EXCEPT !.lat_ref = <<>>]}
    \cup {[GoodIfd(1) EXCEPT !.lat = << <<1, 1>>, <<30, 1>>, <<1, 0>> >>]}
    \cup {[GoodIfd(1) EXCEPT !.lon = << <<200, 1>>, <<15, 1>>, <<0, 1>> >>]}

HasAllFourTags(g) ==
    g.lat # <<>> /\ g.lat_ref # <<>> /\ g.lon # <<>> /\ g.lon_ref # <<>>
WellFormedIfd(g) ==
    /\ \A i \in 1..Len(g.lat) : g.lat[i][2] # 0
    /\ \A i \in 1..Len(g.lon) : g.lon[i][2] # 0

\* EXIF bytes as Pillow exposes them in info["exif"] and piexif decodes them.
NoExif == [present |-> FALSE, loadable |-> FALSE, gps |-> EmptyIfd]
UndecodableExif == [present |-> TRUE, loadable |-> FALSE, gps |-> EmptyIfd]
ExifBlocks ==
    {NoExif, UndecodableExif}
    \cup {[present |-> TRUE, loadable |-> TRUE, gps |-> g] : g \in PipelineIfds}

\* What exifread prints for a rational, for a list of them and for a GPS IFD.
RatioText(r) ==
    IF r[2] = 1 THEN DigitsOf(r[1]) ELSE DigitsOf(r[1]) \o <<"/">> \o DigitsOf(r[2])
RECURSIVE JoinRatios(_)
JoinRatios(v) ==
    IF Len(v) = 1 THEN RatioText(v[1])
    ELSE RatioText(v[1]) \o <<",", " ">> \o JoinRatios(Tail(v))
Tag(present, text) == [present |-> present, text |-> text]
ListTag(v) ==
    IF v = <<>> THEN Tag(FALSE, <<>>) ELSE Tag(TRUE, <<"[">> \o JoinRatios(v) \o <<"]">>)
RefTag(r) == IF r = <<>> THEN Tag(FALSE, <<>>) ELSE Tag(TRUE, r)
ExifreadTags(g) ==
    [raises |-> FALSE, lat |-> ListTag(g.lat), lat_ref |-> RefTag(g.lat_ref),
     lon |-> ListTag(g.lon), lon_ref |-> RefTag(g.lon_ref)]
ExifreadRaises ==
    [raises |-> TRUE, lat |-> Tag(FALSE, <<>>), lat_ref |-> Tag(FALSE, <<>>),
     lon |-> Tag(FALSE, <<>>), lon_ref |-> Tag(FALSE, <<>>)]
ExifreadOutcomes == {ExifreadRaises} \cup {ExifreadTags(g) : g \in PipelineIfds}

\* XMP packets: none, unterminated, not well-formed XML, a well-formed one
\* with latitude k.5 S and longitude (k+20),25 W, and a well-formed one whose
\* latitude text is not a number.
Xmp(open, close, wellformed, lat, lon, lat_ref, lon_ref) ==
    [open |-> open, close |-> close, wellformed |-> wellformed,
     lat |-> lat, lon |-> lon, lat_ref |-> lat_ref, lon_ref |-> lon_ref]
NoXmp == Xmp(FALSE, FALSE, FALSE, <<>>, <<>>, <<>>, <<>>)
GoodXmp(k) ==
    Xmp(TRUE, TRUE, TRUE, DigitsOf(k) \o <<".", "5">>,
        DigitsOf(k + 20) \o <<",", "2", "5">>, <<"S">>, <<"W">>)
XmpPackets ==
    {NoXmp,
     Xmp(TRUE, FALSE, FALSE, <<>>, <<>>, <<>>, <<>>),
     Xmp(TRUE, TRUE, FALSE, <<>>, <<>>, <<>>, <<>>),
     [GoodXmp(1) EXCEPT !.lat = <<"1", ".", "5", "N">>]}
    \cup {GoodXmp(k) : k \in 1..MaxDeg}

\* ISO6709 strings: no marker, a marker with no number pattern after it, and
\* a marker followed by +k.5-0(k+30).25.
Iso(marker, match, lat, lon) ==
    [marker |-> marker, match |-> match, lat |-> lat, lon |-> lon]
NoIso == Iso(FALSE, FALSE, <<>>, <<>>)
GoodIso(k) ==
    Iso(TRUE, TRUE, <<"+">> \o DigitsOf(k) \o <<".", "5">>,
        <<"-", "0">> \o DigitsOf(k + 30) \o <<".", "2", "5">>)
IsoStrings == {NoIso, Iso(TRUE, FALSE, <<>>, <<>>)} \cup {GoodIso(k) : k \in 1..MaxDeg}

\* compressed_img: None, or an image with the EXIF block its info holds.
NoDerivative == [supplied |-> FALSE, exif |-> NoExif]
Derivatives == {NoDerivative} \cup {[supplied |-> TRUE, exif |-> e] : e \in ExifBlocks}

\* original_bytes as each library reads them, and compressed_img.  Bytes
\* Pillow cannot open expose no EXIF block.
GpsInputs ==
    {i \in [openable : BOOLEAN, exif : ExifBlocks, exifread : ExifreadOutcomes,
            xmp : XmpPackets, iso : IsoStrings, derivative : Derivatives] :
        ~i.openable => i.exif = NoExif}

NoGpsInput ==
    [openable |-> FALSE, exif |-> NoExif, exifread |-> ExifreadRaises,
     xmp |-> NoXmp, iso |-> NoIso, derivative |-> NoDerivative]

(***************************************************************************)
(* extract_gps_from_original: the service copy (image_service.py) and the  *)
(* diagnostic copy (diagnose_gps.py).                                      *)
(***************************************************************************)
\* Each resolver's outcome on each of the inputs above.
PiexifOutcome == [e \in ExifBlocks |-> ExtractGpsFromPiexifBytes(e)]
ExifreadOutcome == [t \in ExifreadOutcomes |-> ExtractGpsWithExifread(t)]
DiagExifreadOutcome == [t \in ExifreadOutcomes |-> GpsFromExifreadBytes(t)]
XmpOutcome == [x \in XmpPackets |-> ParseXmpGps(x)]
IsoOutcome == [q \in IsoStrings |-> FindIso6709(q)]

\* Service, stage 1: Image.open, info.get("exif"), piexif on the block; any
\* exception is caught and logged.
SvcPiexifOriginalBody(in) ==
    IF ~in.openable THEN Raised
    ELSE IF in.exif.present THEN PiexifOutcome[in.exif]
    ELSE Ok(NoGps)
\* The stage without its try/except, and a pipeline that leaves the stage out.
SvcPiexifOriginalNoCatch(in) == SvcPiexifOriginalBody(in)
SvcPiexifOriginalSkipped(in) == Ok(NoGps)
SvcPiexifOriginal(in) == CatchNone(SvcPiexifOriginalBody(in))

\* Service, stage 2: exifread on the original bytes.
SvcExifreadOriginal(in) == ExifreadOutcome[in.exifread]

\* Both copies, last stage: piexif on the EXIF block of compressed_img, when
\* one was passed; any exception is caught and logged.
DerivativeStageBody(in) ==
    IF in.derivative.exif.present THEN PiexifOutcome[in.derivative.exif]
    ELSE Ok(NoGps)
\* The stage reading the EXIF block of the original instead.
DerivativeStageFromOriginal(in) ==
    IF in.exif.present THEN PiexifOutcome[in.exif] ELSE Ok(NoGps)
DerivativeStage(in) == CatchNone(DerivativeStageBody(in))

\* Diagnostic copy, stage 1: exifread on the original bytes.
DiagExifreadOriginal(in) == DiagExifreadOutcome[in.exifread]

\* Diagnostic copy, stage 2: exif0 is None when Image.open raises; piexif
\* runs on exif0 when it is not empty.
DiagPiexifOriginal(in) ==
    IF in.openable /\ in.exif.present THEN PiexifOutcome[in.exif]
    ELSE Ok(NoGps)

\* Diagnostic copy, stage 3: the XMP packet, when one is found.
DiagXmp(in) == IF ExtractXmpPacket(in.xmp) THEN XmpOutcome[in.xmp] ELSE Ok(NoGps)

\* Diagnostic copy, stage 4: the ISO6709 string.
DiagIso(in) == IsoOutcome[in.iso]

StageRun(stage, result) == [stage |-> stage, result |-> result]

\* A stage has produced outcome o: an exception leaves the function, a
\* coordinate is returned ("if gps: return gps"), None falls through to next.
AfterStage(stage, o, next) ==
    IF o.exc
    THEN /\ g_pc' = "raised"
         /\ g_trace' = Append(g_trace, StageRun(stage, NoGps))
         /\ UNCHANGED g_ret
    ELSE /\ g_trace' = Append(g_trace, StageRun(stage, o.val))
         /\ IF o.val # NoGps
            THEN g_pc' = "done" /\ g_ret' = o.val
            ELSE g_pc' = next /\ UNCHANGED g_ret

\* The last stage and "return None": the stage runs only when compressed_img
\* is not None.
AfterLastStage(o) ==
    IF ~g_in.derivative.supplied
    THEN g_pc' = "done" /\ g_ret' = NoGps /\ UNCHANGED g_trace
    ELSE IF o.exc
    THEN /\ g_pc' = "raised"
         /\ g_trace' = Append(g_trace, StageRun("derivative", NoGps))
         /\ UNCHANGED g_ret
    ELSE /\ g_trace' = Append(g_trace, StageRun("derivative", o.val))
         /\ g_pc' = "done"
         /\ g_ret' = o.val

\* ingest_sftp, lines 63-77: payload.lon and payload.lat are None (here
\* <<>>) or a float (here <<v>>); the coordinate is the manual pair when both
\* are given, else the pipeline's, else the request ends with HTTP 400.
Point(lon, lat) == [x |-> lon, y |-> lat]
NoPoint == Point(0, 0)
NoPayload == [lon |-> <<>>, lat |-> <<>>]
ManualValues == {<<>>, <<0>>, <<0 - (MaxDeg * Scale)>>, <<200 * Scale>>}
ResolveCoordinates(p, gps) ==
    IF p.lon = <<>> \/ p.lat = <<>>
    THEN IF gps # NoGps THEN Ok(Point(gps[1], gps[2])) ELSE Raised
    ELSE Ok(Point(p.lon[1], p.lat[1]))

GIdle ==
    /\ g_trace = <<>>
    /\ g_ret = NoGps
    /\ g_pc = "idle"
    /\ payload = NoPayload
    /\ geom = NoPoint

\* image_service.py, lines 153-165.
SvcStage1 ==
    /\ g_impl = "service" /\ g_pc = "piexif_original"
    /\ AfterStage("piexif_original", SvcPiexifOriginal(g_in), "exifread_original")
    /\ UNCHANGED <<g_impl, g_in, payload, geom>>
    /\ UNCHANGED <<cvars, u_call, rvars, ivars, svars>>

\* image_service.py, lines 167-171.
SvcStage2 ==
    /\ g_impl = "service" /\ g_pc = "exifread_original"
    /\ AfterStage("exifread_original", SvcExifreadOriginal(g_in), "derivative")
    /\ UNCHANGED <<g_impl, g_in, payload, geom>>
    /\ UNCHANGED <<cvars, u_call, rvars, ivars, svars>>

\* image_service.py, lines 173-186.
SvcStage3 ==
    /\ g_impl = "service" /\ g_pc = "derivative"
    /\ AfterLastStage(DerivativeStage(g_in))
    /\ UNCHANGED <<g_impl, g_in, payload, geom>>
    /\ UNCHANGED <<cvars, u_call, rvars, ivars, svars>>

\* diagnose_gps.py, lines 254-258.
DiagStage1 ==
    /\ g_impl = "diag" /\ g_pc = "exifread_original"
    /\ AfterStage("exifread_original", DiagExifreadOriginal(g_in), "piexif_original")
    /\ UNCHANGED <<g_impl, g_in, payload, geom>>
    /\ UNCHANGED <<cvars, u_call, rvars, ivars, svars>>

\* diagnose_gps.py, lines 260-270.
DiagStage2 ==
    /\ g_impl = "diag" /\ g_pc = "piexif_original"
    /\ AfterStage("piexif_original", DiagPiexifOriginal(g_in), "xmp")
    /\ UNCHANGED <<g_impl, g_in, payload, geom>>
    /\ UNCHANGED <<cvars, u_call, rvars, ivars, svars>>

\* diagnose_gps.py, lines 272-278.
DiagStage3 ==
    /\ g_impl = "diag" /\ g_pc = "xmp"
    /\ AfterStage("xmp", DiagXmp(g_in), "iso6709")
    /\ UNCHANGED <<g_impl, g_in, payload, geom>>
    /\ UNCHANGED <<cvars, u_call, rvars, ivars, svars>>

\* diagnose_gps.py, lines 280-284.
DiagStage4 ==
    /\ g_impl = "diag" /\ g_pc = "iso6709"
    /\ AfterStage("iso6709", DiagIso(g_in), "derivative")
    /\ UNCHANGED <<g_impl, g_in, payload, geom>>
    /\ UNCHANGED <<cvars, u_call, rvars, ivars, svars>>

\* diagnose_gps.py, lines 286-299.
DiagStage5 ==
    /\ g_impl = "diag" /\ g_pc = "derivative"
    /\ AfterLastStage(DerivativeStage(g_in))
    /\ UNCHANGED <<g_impl, g_in, payload, geom>>
    /\ UNCHANGED <<cvars, u_call, rvars, ivars, svars>>

\* photos.py, lines 59-77: ingest_sftp has compressed the original, has
\* called the service pipeline with the compressed image as derivative, and
\* resolves the coordinate to store.
Resolved(p, o) ==
    /\ payload' = p
    /\ IF o.exc
       THEN g_pc' = "http_400" /\ geom' = NoPoint
       ELSE g_pc' = "resolved" /\ geom' = o.val
IngestResolve ==
    /\ g_impl = "service" /\ g_pc = "done"
    /\ g_in.openable /\ g_in.derivative.supplied
    /\ \E p \in [lon : ManualValues, lat : ManualValues] :
          Resolved(p, ResolveCoordinates(p, g_ret))
    /\ UNCHANGED <<g_impl, g_in, g_trace, g_ret>>
    /\ UNCHANGED <<cvars, u_call, rvars, ivars, svars>>

GNext ==
    \/ SvcStage1 \/ SvcStage2 \/ SvcStage3
    \/ DiagStage1 \/ DiagStage2 \/ DiagStage3 \/ DiagStage4 \/ DiagStage5
    \/ IngestResolve

(***************************************************************************)
(* compress_to_target_jpeg                                                 *)
(***************************************************************************)
StartQuality == 92
Step == 6
MinQuality == 10

\* The inputs of one invocation: whether Pillow can decode `data`, the
\* "exif" entry of the decoded image's info (None when it has none),
\* target_bytes, and whether the installed JPEG encoder accepts exif=None.
CompressInputs ==
    [decodable : BOOLEAN,
     exif : {None} \cup (1..MaxExif),
     target_bytes : 0..MaxTarget,
     none_exif_ok : BOOLEAN]

\* The arguments of one img.save call and the size of what it wrote.
Encoding(q, ex, size) == [quality |-> q, exif |-> ex, size |-> size]

\* What the model remembers of one img.save call: its quality and exif
\* arguments and whether what it wrote is within target_bytes.
SaveCall(q, ex, fits) == [quality |-> q, exif |-> ex, fits |-> fits]

\* The value of b and of the result before they are assigned.
NoEncoding == Encoding(0, None, 0)
NoResult == [bytes |-> NoEncoding, mime |-> ""]

\* Sizes the encoder can produce.
Sizes == 1..MaxSize

\* img.save(..., exif=ex) raises when ex is None and the encoder takes bytes only.
SaveRaises(ex) == ex = None /\ ~c_in.none_exif_ok

\* The arguments of the first img.save call.
FirstSaveArgs(q, ex) == <<q, ex>>

\* The arguments of the img.save call in the while body.
LoopSaveArgsNoExif(q, ex) == <<q, None>>
LoopSaveArgs(q, ex) == <<q, ex>>

\* quality = max(10, quality - step)
NextQualityNoFloor(q) == q - Step
NextQualityHalfStep(q) == Max(MinQuality, q - (Step \div 2))
NextQuality(q) == Max(MinQuality, q - Step)

\* A loop whose body runs once even when the first encode is within budget.
LoopCondOnceMore(size, target, q) ==
    (size > target \/ q = StartQuality) /\ q > MinQuality

\* while len(b) > target_bytes and quality > 10
LoopCondHighFloor(size, target, q) == size > target /\ q > MinQuality + 2 * Step
LoopCond(size, target, q) == size > target /\ q > MinQuality

CIdle ==
    /\ c_pc = "idle"
    /\ exif_preserve = None
    /\ quality = 0
    /\ b = NoEncoding
    /\ encodes = <<>>
    /\ iters = 0
    /\ c_ret = NoResult

CInit ==
    /\ c_in \in CompressInputs
    /\ CIdle
    /\ GIdle
    /\ g_impl = "service"
    /\ g_in = NoGpsInput
    /\ u_call = NoCall
    /\ RIdle
    /\ IIdle
    /\ SIdle

\* Lines 232-233: Image.open(data).convert("RGB"); raises on undecodable bytes.
COpen ==
    /\ c_pc = "idle"
    /\ c_pc' = IF c_in.decodable THEN "read_exif" ELSE "raised"
    /\ UNCHANGED <<c_in, exif_preserve, quality, b, encodes, iters, c_ret>>
    /\ UNCHANGED <<gvars, u_call, rvars, ivars, svars>>

\* Lines 236-242: exif_preserve = Image.open(data).info.get("exif", None).
CReadExif ==
    /\ c_pc = "read_exif"
    /\ exif_preserve' = c_in.exif
    /\ c_pc' = "first_save"
    /\ UNCHANGED <<c_in, quality, b, encodes, iters, c_ret>>
    /\ UNCHANGED <<gvars, u_call, rvars, ivars, svars>>

\* Lines 244-248: quality = 92; the first img.save; b = out.getvalue().
CFirstSave ==
    /\ c_pc = "first_save"
    /\ quality' = StartQuality
    /\ LET a == FirstSaveArgs(StartQuality, exif_preserve) IN
       IF SaveRaises(a[2])
       THEN /\ c_pc' = "raised"
            /\ encodes' = Append(encodes, SaveCall(a[1], a[2], FALSE))
            /\ UNCHANGED b
       ELSE \E size \in Sizes :
            /\ b' = Encoding(a[1], a[2], size)
            /\ encodes' = Append(encodes, SaveCall(a[1], a[2], size <= c_in.target_bytes))
            /\ c_pc' = "loop"
    /\ UNCHANGED <<c_in, exif_preserve, iters, c_ret>>
    /\ UNCHANGED <<gvars, u_call, rvars, ivars, svars>>

\* Lines 250-254: one execution of the while body.
CLoopBody ==
    /\ c_pc = "loop"
    /\ LoopCond(b.size, c_in.target_bytes, quality)
    /\ quality' = NextQuality(quality)
    /\ iters' = iters + 1
    /\ LET a == LoopSaveArgs(quality', exif_preserve) IN
       IF SaveRaises(a[2])
       THEN /\ c_pc' = "raised"
            /\ encodes' = Append(encodes, SaveCall(a[1], a[2], FALSE))
            /\ UNCHANGED b
       ELSE \E size \in Sizes :
            /\ b' = Encoding(a[1], a[2], size)
            /\ encodes' = Append(encodes, SaveCall(a[1], a[2], size <= c_in.target_bytes))
            /\ c_pc' = "loop"
    /\ UNCHANGED <<c_in, exif_preserve, c_ret>>
    /\ UNCHANGED <<gvars, u_call, rvars, ivars, svars>>

\* Lines 250, 256-257: the while condition is false; return b, w, h, "image/jpeg".
CReturn ==
    /\ c_pc = "loop"
    /\ ~LoopCond(b.size, c_in.target_bytes, quality)
    /\ c_ret' = [bytes |-> b, mime |-> "image/jpeg"]
    /\ c_pc' = "done"
    /\ UNCHANGED <<c_in, exif_preserve, quality, b, encodes, iters>>
    /\ UNCHANGED <<gvars, u_call, rvars, ivars, svars>>

CNext == COpen \/ CReadExif \/ CFirstSave \/ CLoopBody \/ CReturn

CTerminated == c_pc \in {"done", "raised"}

SpecCompress == CInit /\ [][CNext]_vars

\* The call runs on one thread to completion: every enabled step is taken.
FairSpecCompress == CInit /\ [][CNext]_vars /\ WF_vars(CNext)

GInit ==
    /\ g_impl \in {"service", "diag"}
    /\ g_in \in GpsInputs
    /\ g_trace = <<>>
    /\ g_ret = NoGps
    /\ g_pc = IF g_impl = "service" THEN "piexif_original" ELSE "exifread_original"
    /\ payload = NoPayload
    /\ geom = NoPoint
    /\ c_in = [decodable |-> FALSE, exif |-> None, target_bytes |-> 0,
               none_exif_ok |-> FALSE]
    /\ CIdle
    /\ u_call = NoCall
    /\ RIdle
    /\ IIdle
    /\ SIdle

SpecGps == GInit /\ [][GNext]_vars

\* A call runs on one thread to completion: every enabled step is taken.
FairSpecGps == GInit /\ [][GNext]_vars /\ WF_vars(GNext)

(***************************************************************************)
(* The resolvers and the GPS utilities of image_service.py called on their *)
(* own, each on an argument drawn from the samples below.                  *)
(***************************************************************************)
\* The rationals of a GPSLatitude or GPSLongitude tag: the tag missing, one
\* or two rationals only, k deg 30' (1/MaxDen)", and a zero denominator in
\* the seconds or in the degrees.
DmsSamples ==
    {<<>>, << <<MaxDeg, 1>> >>, << <<1, 1>>, <<30, 1>> >>,
     << <<1, 1>>, <<30, 1>>, <<1, 0>> >>,
     << <<1, 0>>, <<30, 1>>, <<1, 1>> >>}
    \cup {<< <<k, 1>>, <<30, 1>>, <<1, MaxDen>> >> : k \in 1..MaxDeg}

\* GPS IFDs with every combination of tags present and missing.
UtilIfds ==
    [lat : DmsSamples, lat_ref : {<<>>, <<"N">>, <<"S">>, <<"s">>},
     lon : DmsSamples, lon_ref : {<<>>, <<"E">>, <<"W">>, <<"w">>}]

\* ImageService._extract_gps_from_piexif_bytes(exif_bytes)
UExtractGpsFromPiexifBytes ==
    /\ u_call = NoCall
    /\ \E block \in {UndecodableExif}
                     \cup {[present |-> TRUE, loadable |-> TRUE, gps |-> g] : g \in UtilIfds} :
          u_call' = Call("_extract_gps_from_piexif_bytes", block,
                         ExtractGpsFromPiexifBytes(block))
    /\ UNCHANGED <<cvars, gvars, rvars, ivars, svars>>

\* ImageService._extract_gps_with_exifread(data)
UExtractGpsWithExifread ==
    /\ u_call = NoCall
    /\ \E tags \in {ExifreadRaises} \cup {ExifreadTags(g) : g \in UtilIfds} :
          u_call' = Call("_extract_gps_with_exifread", tags, ExtractGpsWithExifread(tags))
    /\ UNCHANGED <<cvars, gvars, rvars, ivars, svars>>

\* _dms_to_dd on floats d, m, s and a hemisphere reference, upper or lower
\* case (one character, str or bytes alike).
Refs == {<<"N">>, <<"S">>, <<"E">>, <<"W">>, <<"n">>, <<"s">>, <<"e">>, <<"w">>}
UDmsToDd ==
    /\ u_call = NoCall
    /\ \E d \in 0..MaxDeg, m \in {0, 30}, sec \in {0, 45}, ref \in Refs :
          u_call' = Call("_dms_to_dd", [d |-> d, m |-> m, s |-> sec, ref |-> ref],
                         Ok(DmsToDd(d * Scale, m * Scale, sec * Scale, ref)))
    /\ UNCHANGED <<cvars, gvars, rvars, ivars, svars>>

\* _ratio_to_float on a rational (n, d), d = 0 included.
URatioToFloat ==
    /\ u_call = NoCall
    /\ \E n \in 0..MaxDeg, d \in 0..MaxDen :
          u_call' = Call("_ratio_to_float", <<n, d>>, RatioToFloat(<<n, d>>))
    /\ UNCHANGED <<cvars, gvars, rvars, ivars, svars>>

\* _parse_exifread_frac on the text of a fraction "n/d" (d = 0 included), of
\* a whole number, of a decimal, and on text that is no number.
FracTexts ==
    {DigitsOf(n) \o <<"/">> \o DigitsOf(d) : n \in 0..MaxDeg, d \in 0..MaxDen}
    \cup {DigitsOf(n) : n \in 0..MaxDeg}
    \cup {<<"1", "/">>, <<" ", "1", ".", "5">>, <<>>, <<"x">>, <<"1", "/", "x">>}
UParseExifreadFrac ==
    /\ u_call = NoCall
    /\ \E text \in FracTexts :
          u_call' = Call("_parse_exifread_frac", text, ParseExifreadFrac(text))
    /\ UNCHANGED <<cvars, gvars, rvars, ivars, svars>>

\* _parse_exifread_dms on what exifread prints for the sampled rationals and
\* on other text: empty, one, two and four components, with and without
\* brackets, with a component that is no number or has a zero denominator.
DmsTexts ==
    {ListTag(v).text : v \in DmsSamples}
    \cup {<<"1", ",", " ", "3", "0">>, <<"[", "1", ",", "3", "0", "]">>,
          <<"[", "1", "/", "2", ",", " ", "3", "0", "]">>,
          <<"[", "1", ",", " ", "x", "]">>, <<"[", "1", "/", "0", ",", " ", "3", "0", "]">>,
          <<"1", ",">>, <<",">>, <<"x">>, <<"[", "]">>,
          <<"[", "1", ",", " ", "3", "0", ",", " ", "4", "5", ",", " ", "7", "]">>}
UParseExifreadDms ==
    /\ u_call = NoCall
    /\ \E text \in DmsTexts :
          u_call' = Call("_parse_exifread_dms", text, CatchNone(ParseExifreadDmsBody(text)))
    /\ UNCHANGED <<cvars, gvars, rvars, ivars, svars>>

(***************************************************************************)
(* extract_captured_at.  A timestamp is <<year, month, day, hour, minute,  *)
(* second, tzinfo>>; None is <<>>.                                         *)
(***************************************************************************)
NoDate == <<>>

\* datetime(y, mo, d, h, mi, s): ValueError outside the calendar.
DaysInMonth(y, mo) ==
    IF mo = 2
    THEN (IF (y % 4 = 0 /\ y % 100 # 0) \/ y % 400 = 0 THEN 29 ELSE 28)
    ELSE IF mo \in {4, 6, 9, 11} THEN 30 ELSE 31
DateTimeOf(y, mo, d, h, mi, s) ==
    IF /\ y >= 1 /\ mo \in 1..12 /\ d >= 1 /\ d <= DaysInMonth(y, mo)
       /\ h \in 0..23 /\ mi \in 0..59 /\ s \in 0..59
    THEN Ok(<<y, mo, d, h, mi, s, "naive">>)
    ELSE Raised

\* datetime.strptime(text, "%Y:%m:%d %H:%M:%S"): four digits of year, one or
\* two digits in each other field, ':' between the fields of the date and of
\* the time, one space between date and time, nothing before or after.
DateTimeOfFields(f) ==
    IF /\ Len(f[1]) = 4
       /\ \A i \in 2..6 : Len(f[i]) \in 1..2
       /\ \A i \in 1..6 : AllDigits(f[i])
    THEN DateTimeOf(DigitsValue(f[1]), DigitsValue(f[2]), DigitsValue(f[3]),
                    DigitsValue(f[4]), DigitsValue(f[5]), DigitsValue(f[6]))
    ELSE Raised
StrptimeOfParts(parts) ==
    IF Len(parts) # 2 THEN Raised
    ELSE IF Len(Split(parts[1], ":")) # 3 \/ Len(Split(parts[2], ":")) # 3 THEN Raised
    ELSE DateTimeOfFields(Split(parts[1], ":") \o Split(parts[2], ":"))
Strptime(text) == StrptimeOfParts(Split(text, " "))

\* The whole value of the tag.
WholeValue(raw) == raw
\* raw[:19]
First19(raw) == SubSeq(raw, 1, IF Len(raw) < 19 THEN Len(raw) ELSE 19)
\* dt = datetime.strptime(raw[:19], ...); return dt.replace(tzinfo=timezone.utc)
ParseStamp(raw) ==
    IF Strptime(First19(raw)).exc THEN Raised
    ELSE Ok([Strptime(First19(raw)).val EXCEPT ![7] = "UTC"])

\* Lines 199-201: DateTimeOriginal or DateTimeDigitized, else 0th DateTime.
\* The date tags of an EXIF block are [original, digitized, datetime]; a
\* missing or empty tag is <<>>.
ExifDateRaw(tags) ==
    IF tags.original # <<>> THEN tags.original
    ELSE IF tags.digitized # <<>> THEN tags.digitized
    ELSE tags.datetime

\* Lines 194-209: the EXIF block of img.info, every exception caught.
CapturedAtFromExif(block) ==
    IF ~block.present \/ ~block.loadable THEN Ok(NoDate)
    ELSE IF ExifDateRaw(block.dates) = <<>> THEN Ok(NoDate)
    ELSE CatchNone(ParseStamp(ExifDateRaw(block.dates)))

\* Lines 211-220: exifread on original_bytes, every exception caught.  What
\* is read is [given, raises, original, datetime]: whether original_bytes is
\* passed and not empty, whether process_file raises, and the text of "EXIF
\* DateTimeOriginal" and of "Image DateTime".
CapturedAtFromExifread(data) ==
    IF ~data.given \/ data.raises THEN Ok(NoDate)
    ELSE IF data.original # <<>> THEN CatchNone(ParseStamp(data.original))
    ELSE IF data.datetime # <<>> THEN CatchNone(ParseStamp(data.datetime))
    ELSE Ok(NoDate)

ExtractCapturedAt(in) ==
    IF CapturedAtFromExif(in.img).val # NoDate THEN CapturedAtFromExif(in.img)
    ELSE CapturedAtFromExifread(in.data)

\* The text "YYYY:MM:DD HH:MM:SS" a camera writes.
RECURSIVE Pad(_, _)
Pad(t, width) == IF Len(t) < width THEN Pad(<<"0">> \o t, width) ELSE t
Stamp(y, mo, d, h, mi, s) ==
    Pad(DigitsOf(y), 4) \o <<":">> \o Pad(DigitsOf(mo), 2) \o <<":">> \o Pad(DigitsOf(d), 2)
    \o <<" ">> \o Pad(DigitsOf(h), 2) \o <<":">> \o Pad(DigitsOf(mi), 2)
    \o <<":">> \o Pad(DigitsOf(s), 2)

\* Tag values: none, three well-formed stamps of different years (the last
\* followed by a fraction of a second), and the all-zero stamp of a camera
\* whose clock was never set.
DateValues ==
    {<<>>, Stamp(2021, 1, 5, 3, 4, 5), Stamp(2022, 12, 31, 23, 59, 59),
     Stamp(2024, 2, 29, 10, 20, 30) \o <<".", "5", "0">>,
     Stamp(0, 0, 0, 0, 0, 0)}
DateBlocks ==
    {[present |-> FALSE, loadable |-> FALSE,
      dates |-> [original |-> <<>>, digitized |-> <<>>, datetime |-> <<>>]],
     [present |-> TRUE, loadable |-> FALSE,
      dates |-> [original |-> <<>>, digitized |-> <<>>, datetime |-> <<>>]]}
    \cup {[present |-> TRUE, loadable |-> TRUE, dates |-> t] :
             t \in [original : DateValues, digitized : DateValues, datetime : DateValues]}
DateData ==
    {[given |-> FALSE, raises |-> FALSE, original |-> <<>>, datetime |-> <<>>],
     [given |-> TRUE, raises |-> TRUE, original |-> <<>>, datetime |-> <<>>]}
    \cup {[given |-> TRUE, raises |-> FALSE, original |-> o, datetime |-> t] :
             o \in DateValues, t \in DateValues}

UExtractCapturedAt ==
    /\ u_call = NoCall
    /\ \E img \in DateBlocks, data \in DateData :
          u_call' = Call("extract_captured_at", [img |-> img, data |-> data],
                         ExtractCapturedAt([img |-> img, data |-> data]))
    /\ UNCHANGED <<cvars, gvars, rvars, ivars, svars>>

(***************************************************************************)
(* extract_exif: the flattened mapping of readable EXIF tags.               *)
(***************************************************************************)
\* The IFDs the first pass walks, in its order, as key prefixes.
ExifIfds == {<<"0", "t", "h">>, <<"E", "x", "i", "f">>, <<"G", "P", "S">>,
             <<"1", "s", "t">>}

\* piexif.TAGS[ifd][tag]["name"] (271 Make, 306 DateTime), or str(tag) for
\* a tag the table lacks.
PiexifName(ifd, tag) ==
    CASE ifd = <<"0", "t", "h">> /\ tag = 271 -> <<"M", "a", "k", "e">>
      [] ifd = <<"0", "t", "h">> /\ tag = 306 ->
             <<"D", "a", "t", "e", "T", "i", "m", "e">>
      [] ifd = <<"1", "s", "t">> /\ tag = 271 -> <<"M", "a", "k", "e">>
      [] OTHER -> DigitsOf(tag)

\* The key of the first pass, f"{ifd}.{name}".
PiexifKey(ifd, tag) == ifd \o <<".">> \o PiexifName(ifd, tag)

\* ExifTags.TAGS.get(k, str(k)) prefixed with the primary IFD: a second pass
\* that writes into the namespace of the first.
PillowKeyInIfd(k) ==
    <<"0", "t", "h", ".">> \o
    (CASE k = 271 -> <<"M", "a", "k", "e">>
       [] k = 306 -> <<"D", "a", "t", "e", "T", "i", "m", "e">>
       [] k = 34853 -> <<"G", "P", "S", "I", "n", "f", "o">>
       [] OTHER -> DigitsOf(k))

\* The key of the second pass, ExifTags.TAGS.get(k, str(k)) (34853 GPSInfo).
PillowKey(k) ==
    CASE k = 271 -> <<"M", "a", "k", "e">>
      [] k = 306 -> <<"D", "a", "t", "e", "T", "i", "m", "e">>
      [] k = 34853 -> <<"G", "P", "S", "I", "n", "f", "o">>
      [] OTHER -> DigitsOf(k)

\* str(val) of a value piexif delivers as bytes, and of one Pillow delivers
\* as text.
StrOfBytes(v) == <<"b", "'">> \o v \o <<"'">>
StrOfText(v) == v

\* meta[key] = value.
SetItem(meta, key, value) ==
    [x \in DOMAIN meta \cup {key} |-> IF x = key THEN value ELSE meta[x]]

RECURSIVE SetItems(_, _)
SetItems(meta, items) ==
    IF items = <<>> THEN meta
    ELSE SetItems(SetItem(meta, items[1][1], items[1][2]), Tail(items))

\* The empty dict.
EmptyMeta == [x \in {} |-> <<>>]

\* The items the first pass writes: none when img.info has no "exif" bytes
\* or piexif.load raises, else one per (ifd, tag) of the loaded dict.
PiexifItems(img) ==
    IF img.exif = "loaded"
    THEN [i \in 1..Len(img.exif_dict) |->
            <<PiexifKey(img.exif_dict[i][1], img.exif_dict[i][2]),
              StrOfBytes(img.exif_dict[i][3])>>]
    ELSE <<>>

\* The items the second pass writes: those before img.getexif() or the
\* iteration raised.
PillowItems(img) ==
    [i \in 1..Len(img.raw) |->
       <<PillowKey(img.raw[i][1]), StrOfText(img.raw[i][2])>>]

ExtractExif(img) ==
    Ok(SetItems(SetItems(EmptyMeta, PiexifItems(img)), PillowItems(img)))

\* Values of tags.
TagTexts == {<<"x">>, <<"y">>}

\* Images: the EXIF block absent, unloadable or loaded with up to two tags;
\* Pillow's view empty (or raising at once) or holding up to two tags.
ExifDicts ==
    {<<>>} \cup
    {<< <<ifd, tag, v>> >> :
        ifd \in ExifIfds, tag \in {271, 9}, v \in TagTexts} \cup
    {<< <<ifd, 271, v>>, <<ifd, 306, v>> >> :
        ifd \in {<<"0", "t", "h">>}, v \in TagTexts}

RawExifs ==
    {<<>>} \cup
    {<< <<k, v>> >> : k \in {271, 9, 34853}, v \in TagTexts} \cup
    {<< <<271, v>>, <<306, v>> >> : v \in TagTexts}

ExifImages ==
    [exif : {"absent", "unloadable"}, exif_dict : {<<>>}, raw : RawExifs] \cup
    [exif : {"loaded"}, exif_dict : ExifDicts, raw : RawExifs]

UExtractExif ==
    /\ u_call = NoCall
    /\ \E img \in ExifImages :
          u_call' = Call("extract_exif", img, ExtractExif(img))
    /\ UNCHANGED <<cvars, gvars, rvars, ivars, svars>>

\* The binary-tag resolver and the text-tag resolver of one copy
\* (image_service.py or diagnose_gps.py) run on the same GPS IFD: piexif
\* delivers it as rationals and reference bytes, exifread as the printed
\* list and the reference text.
BothPaths(impl, g) ==
    [binary |-> ExtractGpsFromPiexifBytes(
                    [present |-> TRUE, loadable |-> TRUE, gps |-> g]).val,
     text |-> IF impl = "service" THEN ExtractGpsWithExifread(ExifreadTags(g)).val
              ELSE GpsFromExifreadBytes(ExifreadTags(g)).val]

UGpsFromBothPaths ==
    /\ u_call = NoCall
    /\ \E impl \in {"service", "diag"}, g \in UtilIfds :
          u_call' = Call("gps_from_both_paths", [impl |-> impl, gps |-> g],
                         Ok(BothPaths(impl, g)))
    /\ UNCHANGED <<cvars, gvars, rvars, ivars, svars>>

(***************************************************************************)
(* The routes of routers/photos.py and their matching.                     *)
(***************************************************************************)
Route(method, path, endpoint) == [method |-> method, path |-> path, endpoint |-> endpoint]

\* The routes of the router in the order of their decorators; a path is
\* its segments below the prefix /photos.
Routes ==
    << Route("POST", <<"ingest", "sftp">>, "ingest_sftp"),
       Route("GET", <<"search">>, "search"),
       Route("GET", <<"{photo_id}", "image">>, "get_image"),
       Route("GET", <<"{photo_id}">>, "get_meta"),
       Route("GET", <<"viewer">>, "viewer") >>

\* A route path matches a request path: as many segments, each equal or
\* bound to a path parameter, which takes any one segment.
PathMatches(pattern, path) ==
    /\ Len(pattern) = Len(path)
    /\ \A i \in 1..Len(pattern) : pattern[i] = "{photo_id}" \/ pattern[i] = path[i]

\* The first route at or after position k that matches path and method.
RECURSIVE FirstMatch(_, _, _, _)
FirstMatch(routes, k, method, path) ==
    IF k > Len(routes) THEN "not_found"
    ELSE IF PathMatches(routes[k].path, path) /\ routes[k].method = method
    THEN routes[k].endpoint
    ELSE FirstMatch(routes, k + 1, method, path)

\* The endpoint a request is dispatched to.
Dispatch(method, path) == FirstMatch(Routes, 1, method, path)

\* Request paths below /photos.
RequestPaths ==
    {<<>>, <<"search">>, <<"viewer">>, <<"p1">>, <<"p1", "image">>,
     <<"viewer", "image">>, <<"ingest", "sftp">>, <<"ingest", "ftp">>}

UDispatch ==
    /\ u_call = NoCall
    /\ \E method \in {"GET", "POST"}, path \in RequestPaths :
          u_call' = Call("dispatch", [method |-> method, path |-> path],
                         Ok(Dispatch(method, path)))
    /\ UNCHANGED <<cvars, gvars, rvars, ivars, svars>>

UInit ==
    /\ u_call = NoCall
    /\ c_in = [decodable |-> FALSE, exif |-> None, target_bytes |-> 0,
               none_exif_ok |-> FALSE]
    /\ CIdle
    /\ GIdle
    /\ g_impl = "service"
    /\ g_in = NoGpsInput
    /\ RIdle
    /\ IIdle
    /\ SIdle

UNext ==
    \/ UExtractGpsFromPiexifBytes
    \/ UExtractGpsWithExifread
    \/ UDmsToDd
    \/ URatioToFloat
    \/ UParseExifreadFrac
    \/ UParseExifreadDms
    \/ UExtractCapturedAt
    \/ UExtractExif
    \/ UGpsFromBothPaths
    \/ UDispatch

SpecUtil == UInit /\ [][UNext]_vars

(***************************************************************************)
(* Repeated invocations.  ingest_sftp hands the same two objects to        *)
(* extract_gps_from_original and to extract_captured_at: the original      *)
(* bytes and the image opened from the compressed bytes.  Neither function *)
(* has state of its own (both are static methods of ImageService and the   *)
(* module holds a logger only), so what one invocation could pass on to    *)
(* another is what it leaves in those objects.                             *)
(***************************************************************************)
MaxCalls == 3

\* extract_gps_from_original (service) as one step: the stages in order,
\* each returning its coordinate when it has one, the last one run only
\* when compressed_img is passed.
ReturnOr(o, rest) == IF o.exc \/ o.val # NoGps THEN o ELSE rest
ExtractGpsFromOriginal(in) ==
    ReturnOr(SvcPiexifOriginal(in),
             ReturnOr(SvcExifreadOriginal(in),
                      IF in.derivative.supplied THEN DerivativeStage(in) ELSE Ok(NoGps)))

\* An invocation that removes the EXIF block from the image's info.
InfoAfterPop(block) == [block EXCEPT !.present = FALSE]
\* img.info.get("exif"): the info dictionary of the image is read, not
\* changed.
InfoAfterGet(block) == block

\* The objects handed over: [gps, dates], the GPS side and the timestamp
\* side of the original bytes and of the image.
RepeatInputs ==
    [gps : {i \in GpsInputs :
               /\ i.exif \in {NoExif, [present |-> TRUE, loadable |-> TRUE, gps |-> GoodIfd(1)]}
               /\ i.exifread \in {ExifreadRaises, ExifreadTags(GoodIfd(2))}
               /\ i.xmp = NoXmp /\ i.iso = NoIso
               /\ i.derivative \in
                     {NoDerivative,
                      [supplied |-> TRUE,
                       exif |-> [present |-> TRUE, loadable |-> TRUE, gps |-> GoodIfd(1)]]}},
     dates : [img : {blk \in DateBlocks :
                        /\ blk.dates.digitized = <<>> /\ blk.dates.datetime = <<>>
                        /\ blk.dates.original \in {<<>>, Stamp(2021, 1, 5, 3, 4, 5)}},
              data : {d \in DateData :
                         /\ d.datetime = <<>>
                         /\ d.original \in {<<>>, Stamp(2022, 12, 31, 23, 59, 59)}}]]

RExtractGps ==
    /\ Len(r_log) < MaxCalls
    /\ r_log' = Append(r_log, Call("extract_gps_from_original", r_in,
                                   ExtractGpsFromOriginal(r_in.gps)))
    /\ r_in' = [r_in EXCEPT !.gps.derivative.exif = InfoAfterGet(@)]
    /\ UNCHANGED <<cvars, gvars, u_call, ivars, svars>>

RExtractCapturedAt ==
    /\ Len(r_log) < MaxCalls
    /\ r_log' = Append(r_log, Call("extract_captured_at", r_in,
                                   ExtractCapturedAt(r_in.dates)))
    /\ r_in' = [r_in EXCEPT !.dates.img = InfoAfterGet(@)]
    /\ UNCHANGED <<cvars, gvars, u_call, ivars, svars>>

RInit ==
    /\ r_in \in RepeatInputs
    /\ r_log = <<>>
    /\ IIdle
    /\ SIdle
    /\ u_call = NoCall
    /\ c_in = [decodable |-> FALSE, exif |-> None, target_bytes |-> 0,
               none_exif_ok |-> FALSE]
    /\ CIdle
    /\ GIdle
    /\ g_impl = "service"
    /\ g_in = NoGpsInput

RNext ==
    \/ RExtractGps
    \/ RExtractCapturedAt

SpecRepeat == RInit /\ [][RNext]_vars

(***************************************************************************)
(* ingest_sftp (routers/photos.py).  The request is the variable payload   *)
(* and i_in; gps and geom are the locals of the same name (gps is g_ret).  *)
(***************************************************************************)
\* What the request meets: whether sftp.fetch_bytes returns, whether Pillow
\* decodes the bytes, the EXIF block they carry, whether the JPEG encoder
\* accepts exif=None, which of db.commit and db.refresh raises, if any, and
\* the number of records the store holds beforehand.
IngestInputs ==
    [fetch_ok : BOOLEAN, decodable : BOOLEAN,
     exif : {NoExif} \cup {[present |-> TRUE, loadable |-> TRUE, gps |-> g] :
                              g \in {EmptyIfd, GoodIfd(1)}},
     none_exif_ok : BOOLEAN, db_fails : {"never", "commit", "refresh"},
     stored : 0..1]

\* The Photo row built at lines 80-91, and the store holding n earlier rows.
PhotoRow(g) == [geom |-> g, mime_type |-> "image/jpeg"]
StoreOf(n) == [k \in 1..n |-> PhotoRow(NoPoint)]

\* compress_to_target_jpeg raises on bytes Pillow cannot decode and, with
\* an encoder that takes bytes only, on an image without EXIF.
CompressRaises(in) == ~in.decodable \/ (~in.exif.present /\ ~in.none_exif_ok)

\* original_bytes and compressed_img as extract_gps_from_original is handed
\* them: the compressed image carries the EXIF block of the original.
GpsInputOf(in) ==
    [openable |-> in.decodable, exif |-> in.exif,
     exifread |-> ExifreadTags(IF in.exif.present THEN in.exif.gps ELSE EmptyIfd),
     xmp |-> NoXmp, iso |-> NoIso,
     derivative |-> [supplied |-> TRUE, exif |-> in.exif]]

\* A handler that goes on after a failed fetch.
AfterFetchIgnoringFailure(ok) == "compress"
\* Lines 38-43: the except clause turns any failure into HTTP 400.
AfterFetch(ok) == IF ok THEN "compress" ELSE "http_400"

\* A store that keeps the added row although commit failed.
StoreAlways(rows, row, ok) == Append(rows, row)
\* Lines 79-94: db.add, db.commit, db.refresh inside `with SessionLocal()`;
\* when commit raises, the session is closed with the row never committed.
StoreAfterCommit(rows, row, ok) == IF ok THEN Append(rows, row) ELSE rows

IFetch ==
    /\ i_pc = "fetch"
    /\ i_steps' = Append(i_steps, "fetch_bytes")
    /\ i_pc' = AfterFetch(i_in.fetch_ok)
    /\ UNCHANGED <<i_in, db, gvars>>
    /\ UNCHANGED <<cvars, u_call, rvars, svars>>

\* Lines 46-48: no try around the call.
ICompress ==
    /\ i_pc = "compress"
    /\ i_steps' = Append(i_steps, "compress_to_target_jpeg")
    /\ i_pc' = IF CompressRaises(i_in) THEN "raised" ELSE "metadata"
    /\ UNCHANGED <<i_in, db, gvars>>
    /\ UNCHANGED <<cvars, u_call, rvars, svars>>

\* Lines 52-60: Image.open on the compressed bytes, extract_exif,
\* extract_gps_from_original, extract_captured_at; none of them raises.
IMetadata ==
    /\ i_pc = "metadata"
    /\ i_steps' = i_steps \o <<"extract_exif", "extract_gps_from_original",
                               "extract_captured_at">>
    /\ g_ret' = ExtractGpsFromOriginal(GpsInputOf(i_in)).val
    /\ i_pc' = "resolve"
    /\ UNCHANGED <<i_in, db, g_impl, g_pc, g_in, g_trace, payload, geom>>
    /\ UNCHANGED <<cvars, u_call, rvars, svars>>

\* Lines 63-77.
IResolve ==
    /\ i_pc = "resolve"
    /\ IF ResolveCoordinates(payload, g_ret).exc
       THEN i_pc' = "http_400" /\ UNCHANGED geom
       ELSE i_pc' = "store" /\ geom' = ResolveCoordinates(payload, g_ret).val
    /\ UNCHANGED <<i_in, i_steps, db, g_impl, g_pc, g_in, g_trace, g_ret, payload>>
    /\ UNCHANGED <<cvars, u_call, rvars, svars>>

\* Lines 79-115.
IStore ==
    /\ i_pc = "store"
    /\ i_steps' = i_steps \o (IF i_in.db_fails = "commit" THEN <<"add", "commit">>
                               ELSE <<"add", "commit", "refresh">>)
    /\ db' = StoreAfterCommit(db, PhotoRow(geom), i_in.db_fails # "commit")
    /\ i_pc' = IF i_in.db_fails = "never" THEN "returned" ELSE "raised"
    /\ UNCHANGED <<i_in, gvars>>
    /\ UNCHANGED <<cvars, u_call, rvars, svars>>

IInit ==
    /\ i_in \in IngestInputs
    /\ payload \in [lon : ManualValues, lat : ManualValues]
    /\ i_pc = "fetch"
    /\ i_steps = <<>>
    /\ db = StoreOf(i_in.stored)
    /\ g_trace = <<>> /\ g_ret = NoGps /\ g_pc = "idle" /\ geom = NoPoint
    /\ g_impl = "service"
    /\ g_in = NoGpsInput
    /\ c_in = [decodable |-> FALSE, exif |-> None, target_bytes |-> 0,
               none_exif_ok |-> FALSE]
    /\ CIdle
    /\ u_call = NoCall
    /\ RIdle
    /\ SIdle

INext ==
    \/ IFetch
    \/ ICompress
    \/ IMetadata
    \/ IResolve
    \/ IStore

SpecIngest == IInit /\ [][INext]_vars

(***************************************************************************)
(* SFTPClient: fetch_bytes and healthy, called one after another on one    *)
(* client.  Each call builds its own paramiko.Transport and SFTP session.  *)
(***************************************************************************)
\* A call: the method, and the statement of it that raises, if any: the
\* Transport constructor, transport.connect, SFTPClient.from_transport, or
\* the use of the session (sftp.open / f.read in fetch_bytes, sftp.listdir
\* in healthy).
SftpInputs ==
    [method : {"fetch_bytes", "healthy"},
     fails_at : {"never", "construct", "connect", "from_transport", "use"}]

\* Where an exception raised before the session is used leaves the method:
\* fetch_bytes has those statements outside its try (lines 15-17) and lets
\* the exception out; healthy catches it and returns False (lines 33-34).
OnError(method) == IF method = "fetch_bytes" THEN "raised" ELSE "returned"

\* Lines 15, 27: paramiko.Transport((host, port)) opens the connection.
SConstruct ==
    /\ s_pc = "construct"
    /\ IF s_in.fails_at = "construct"
       THEN s_pc' = OnError(s_in.method) /\ UNCHANGED s_transport
       ELSE s_pc' = "connect" /\ s_transport' = "open"
    /\ UNCHANGED <<s_in, s_sftp, s_calls>>
    /\ UNCHANGED <<cvars, gvars, u_call, rvars, ivars>>

\* Lines 16, 28: transport.connect(username, password).
SConnect ==
    /\ s_pc = "connect"
    /\ s_pc' = IF s_in.fails_at = "connect" THEN OnError(s_in.method)
               ELSE "from_transport"
    /\ UNCHANGED <<s_in, s_transport, s_sftp, s_calls>>
    /\ UNCHANGED <<cvars, gvars, u_call, rvars, ivars>>

\* Lines 17, 29: paramiko.SFTPClient.from_transport(transport).
SFromTransport ==
    /\ s_pc = "from_transport"
    /\ IF s_in.fails_at = "from_transport"
       THEN s_pc' = OnError(s_in.method) /\ UNCHANGED s_sftp
       ELSE s_pc' = "use" /\ s_sftp' = "open"
    /\ UNCHANGED <<s_in, s_transport, s_calls>>
    /\ UNCHANGED <<cvars, gvars, u_call, rvars, ivars>>

\* Lines 18-20: sftp.open(path) and f.read() inside try; an exception goes
\* through the finally clause.  Line 30: sftp.listdir; an exception goes to
\* the except clause, which returns False.
SUse ==
    /\ s_pc = "use"
    /\ s_pc' = IF s_in.method = "healthy" /\ s_in.fails_at = "use" THEN "returned"
               ELSE "close"
    /\ UNCHANGED <<s_in, s_transport, s_sftp, s_calls>>
    /\ UNCHANGED <<cvars, gvars, u_call, rvars, ivars>>

\* Lines 21-23 (finally) and line 31: sftp.close(); transport.close(); then
\* the return, or the exception of the try body.
SClose ==
    /\ s_pc = "close"
    /\ s_sftp' = "closed"
    /\ s_transport' = "closed"
    /\ s_pc' = IF s_in.fails_at = "use" THEN "raised" ELSE "returned"
    /\ UNCHANGED <<s_in, s_calls>>
    /\ UNCHANGED <<cvars, gvars, u_call, rvars, ivars>>

\* The next call on the client; transport and sftp are locals of the call.
SCall ==
    /\ s_pc \in {"idle", "returned", "raised"}
    /\ s_calls < MaxCalls
    /\ s_in' \in SftpInputs
    /\ s_calls' = s_calls + 1
    /\ s_transport' = "none"
    /\ s_sftp' = "none"
    /\ s_pc' = "construct"
    /\ UNCHANGED <<cvars, gvars, u_call, rvars, ivars>>

SInit ==
    /\ SIdle
    /\ c_in = [decodable |-> FALSE, exif |-> None, target_bytes |-> 0,
               none_exif_ok |-> FALSE]
    /\ CIdle
    /\ GIdle
    /\ g_impl = "service"
    /\ g_in = NoGpsInput
    /\ u_call = NoCall
    /\ RIdle
    /\ IIdle

SNext == SCall \/ SConstruct \/ SConnect \/ SFromTransport \/ SUse \/ SClose

SpecSftp == SInit /\ [][SNext]_vars

(***************************************************************************)
(* Claims about extract_gps_from_original.                                 *)
(***************************************************************************)
\* "if gps: return gps" over two sources in turn.
FirstOf(a, rest) == IF a # NoGps THEN a ELSE rest

\* What each source of one input holds, stage by stage.  The structured
\* decode of the original is the stage-1 resolver pair of the copy at hand;
\* the XMP and the QuickTime scan are the repository's only resolvers for
\* those sources, _parse_xmp_gps and _find_iso6709.
PiexifCoord(in) ==
    IF in.openable /\ in.exif.present THEN ExtractGpsFromPiexifBytes(in.exif).val
    ELSE NoGps
StructuredOriginal(impl, in) ==
    IF impl = "service"
    THEN FirstOf(PiexifCoord(in), ExtractGpsWithExifread(in.exifread).val)
    ELSE FirstOf(GpsFromExifreadBytes(in.exifread).val, PiexifCoord(in))
XmpCoord(in) == IF ExtractXmpPacket(in.xmp) THEN ParseXmpGps(in.xmp).val ELSE NoGps
IsoCoord(in) == FindIso6709(in.iso).val
DerivativeCoord(in) ==
    IF in.derivative.supplied /\ in.derivative.exif.present
    THEN ExtractGpsFromPiexifBytes(in.derivative.exif).val
    ELSE NoGps

\* A stage has been run by the call.
HasRun(stage) == \E i \in 1..Len(g_trace) : g_trace[i].stage = stage
\* No stage run on the original bytes has yielded a coordinate.
OriginalYieldedNothing ==
    \A i \in 1..Len(g_trace) :
        g_trace[i].stage # "derivative" => g_trace[i].result = NoGps

\* C1: a finished call has returned the coordinate of the earliest yielding
\* stage in the order structured decode of the original, XMP scan, QuickTime
\* ISO6709 scan, structured decode of the derivative (None when none
\* yields); the stage that yielded is the last one run and its value is the
\* one returned.
C1_EarliestStageInOrder ==
    g_pc = "done" =>
        /\ g_ret = FirstOf(StructuredOriginal(g_impl, g_in),
                     FirstOf(XmpCoord(g_in),
                       FirstOf(IsoCoord(g_in), DerivativeCoord(g_in))))
        /\ \A i \in 1..Len(g_trace) :
              g_trace[i].result # NoGps =>
                  i = Len(g_trace) /\ g_ret = g_trace[i].result

C3_XmpOrQuickTimeBeforeDerivative ==
    (/\ g_impl = "service" /\ g_pc = "done"
     /\ StructuredOriginal("service", g_in) = NoGps)
    => /\ XmpCoord(g_in) # NoGps =>
              g_ret = XmpCoord(g_in) /\ ~HasRun("derivative")
       /\ (XmpCoord(g_in) = NoGps /\ IsoCoord(g_in) # NoGps) =>
              g_ret = IsoCoord(g_in) /\ ~HasRun("derivative")

\* The original carries no EXIF GPS, no XMP packet and no QuickTime marker,
\* and no derivative is supplied; the bytes may be undecodable.
NoSource(in) ==
    /\ in.exif.gps = EmptyIfd
    /\ in.exifread \in {ExifreadRaises, ExifreadTags(EmptyIfd)}
    /\ ~in.xmp.open
    /\ ~in.iso.marker
    /\ ~in.derivative.supplied

\* C4: on an input with no source at all, extract_gps_from_original never
\* raises, returns None when it returns, and does return.
C4_NoSourceReturnsNone ==
    /\ [](NoSource(g_in) => g_pc # "raised" /\ (g_pc = "done" => g_ret = NoGps))
    /\ [](NoSource(g_in) => <>(g_pc = "done" /\ g_ret = NoGps))

\* C4 witness: a call on bytes that neither Pillow nor exifread can decode
\* has returned None.
C4_Witness ==
    /\ g_pc = "done" /\ g_ret = NoGps
    /\ NoSource(g_in)
    /\ ~g_in.openable /\ g_in.exifread.raises
    /\ Len(g_trace) >= 2

\* C5 as stated: when no stage on the original yielded, a supplied derivative
\* whose EXIF holds all four GPS tags makes the call return the coordinate
\* decoded from it; without a derivative the stage is skipped and the call
\* returns None.
C5_DerivativeWithFourTagsYields ==
    (g_pc = "done" /\ OriginalYieldedNothing) =>
        /\ (/\ g_in.derivative.supplied
            /\ g_in.derivative.exif.present /\ g_in.derivative.exif.loadable
            /\ HasAllFourTags(g_in.derivative.exif.gps))
           => g_ret # NoGps /\ g_ret = DerivativeCoord(g_in)
        /\ ~g_in.derivative.supplied => g_ret = NoGps /\ ~HasRun("derivative")

\* C5 amended: as C5, for a derivative whose four GPS tags hold rationals
\* with non-zero denominators; a derivative with a zero denominator in one
\* of them yields None.
C5_DerivativeWellFormedYields ==
    (g_pc = "done" /\ OriginalYieldedNothing) =>
        /\ (/\ g_in.derivative.supplied
            /\ g_in.derivative.exif.present /\ g_in.derivative.exif.loadable
            /\ HasAllFourTags(g_in.derivative.exif.gps))
           => IF WellFormedIfd(g_in.derivative.exif.gps)
              THEN /\ g_ret # NoGps
                   /\ g_ret = ExtractGpsFromPiexifBytes(g_in.derivative.exif).val
                   /\ g_trace[Len(g_trace)] = StageRun("derivative", g_ret)
              ELSE g_ret = NoGps
        /\ ~g_in.derivative.supplied => g_ret = NoGps /\ ~HasRun("derivative")

\* C5 witness: every stage on the original yielded nothing although the
\* original has EXIF of its own, and the call has returned the coordinate
\* of the derivative's well-formed GPS tags.
C5_Witness ==
    /\ g_pc = "done" /\ OriginalYieldedNothing
    /\ g_in.openable /\ g_in.exif.present
    /\ g_in.derivative.supplied
    /\ HasAllFourTags(g_in.derivative.exif.gps)
    /\ WellFormedIfd(g_in.derivative.exif.gps)
    /\ g_ret # NoGps
    /\ g_trace[Len(g_trace)] = StageRun("derivative", g_ret)

\* The source a stage reads is present but malformed: an EXIF block piexif
\* cannot load or whose GPS rationals have a zero denominator, text tags
\* printing such a rational, an XMP packet that is unterminated, not
\* well-formed XML or whose number is not one, a QuickTime marker with no
\* number pattern after it.
MalformedExif(e) ==
    e.present /\ (~e.loadable \/ (HasAllFourTags(e.gps) /\ ~WellFormedIfd(e.gps)))
MalformedText(t) ==
    \E g \in PipelineIfds :
        HasAllFourTags(g) /\ ~WellFormedIfd(g) /\ t = ExifreadTags(g)
MalformedXmp(x) ==
    x.open /\ (~x.close \/ ~x.wellformed
               \/ (x.lat # <<>> /\ XmpToFloat(x.lat).exc)
               \/ (x.lon # <<>> /\ XmpToFloat(x.lon).exc))
Malformed(stage, in) ==
    CASE stage = "piexif_original" -> in.openable /\ MalformedExif(in.exif)
      [] stage = "exifread_original" -> MalformedText(in.exifread)
      [] stage = "xmp" -> MalformedXmp(in.xmp)
      [] stage = "iso6709" -> in.iso.marker /\ ~in.iso.match
      [] stage = "derivative" -> in.derivative.supplied /\ MalformedExif(in.derivative.exif)

\* The stage after `stage` in the chain of each copy.
NextStage(impl, stage) ==
    IF impl = "service"
    THEN CASE stage = "piexif_original" -> "exifread_original"
           [] stage = "exifread_original" -> "derivative"
    ELSE CASE stage = "exifread_original" -> "piexif_original"
           [] stage = "piexif_original" -> "xmp"
           [] stage = "xmp" -> "iso6709"
           [] stage = "iso6709" -> "derivative"

\* Stage i of the trace, which yielded nothing, has handed over to the next
\* stage of the chain: that stage has run or is about to, or it is the
\* derivative stage, skipped for want of a derivative on the way to
\* "return None".  After the derivative stage the call returns None.
HandedOver(i) ==
    IF g_trace[i].stage = "derivative"
    THEN g_pc = "done" /\ g_ret = NoGps
    ELSE IF i < Len(g_trace)
    THEN g_trace[i + 1].stage = NextStage(g_impl, g_trace[i].stage)
    ELSE \/ g_pc = NextStage(g_impl, g_trace[i].stage)
         \/ /\ g_pc = "done" /\ g_ret = NoGps
            /\ NextStage(g_impl, g_trace[i].stage) = "derivative"
            /\ ~g_in.derivative.supplied

\* C6: no exception leaves a stage, and a stage run on a malformed source
\* yields no result and hands over to the next stage of the chain, as a
\* stage whose source is absent does.
C6_MalformedLikeAbsent ==
    /\ g_pc # "raised"
    /\ \A i \in 1..Len(g_trace) :
          Malformed(g_trace[i].stage, g_in) =>
              g_trace[i].result = NoGps /\ HandedOver(i)

(***************************************************************************)
(* Claims about compress_to_target_jpeg.                                   *)
(***************************************************************************)
\* The qualities of the img.save calls made so far.
Qualities == [i \in 1..Len(encodes) |-> encodes[i].quality]

\* C7: whenever compress_to_target_jpeg returns, the returned bytes are
\* within target_bytes or are the encoding made at quality 10, the floor;
\* a budget no encoding meets ends in a return of the floor encoding.
C7_WithinBudgetOrFloor ==
    c_pc = "done" =>
        /\ c_ret.bytes = b
        /\ \/ c_ret.bytes.size <= c_in.target_bytes
           \/ c_ret.bytes.quality = MinQuality
        /\ encodes[Len(encodes)].quality = c_ret.bytes.quality

\* C7 witness: a call whose every encoding exceeded the budget has returned
\* the quality-10 encoding, still larger than target_bytes.
C7_Witness ==
    /\ c_pc = "done"
    /\ c_ret.bytes.size > c_in.target_bytes
    /\ c_ret.bytes.quality = MinQuality
    /\ \A i \in 1..Len(encodes) : ~encodes[i].fits

\* C8: the quality-reduction loop runs its body at most 14 times and the
\* call ends (returns or raises) whatever the image and the budget.
C8_LoopTerminatesWithin14 == [](iters <= 14) /\ <>CTerminated

\* C8 witness: a call that ran the loop body 14 times has returned.
C8_Witness == c_pc = "done" /\ iters = 14 /\ ~encodes[Len(encodes)].fits

\* C9 as stated: the first encode is at 92, every later encode is exactly 6
\* below the encode before it, and every encode is within 10..92.
C9_EveryStepExactlySix ==
    /\ Len(encodes) >= 1 => Qualities[1] = 92
    /\ \A i \in 2..Len(encodes) : Qualities[i] = Qualities[i - 1] - 6
    /\ \A i \in 1..Len(encodes) : Qualities[i] >= 10 /\ Qualities[i] <= 92

\* C9 amended: the first encode is at 92; every later encode is exactly 6
\* below the encode before it, except the encode at the floor 10, which
\* follows the encode at 14 and is 4 below it; every encode is within 10..92.
C9_QualitySchedule ==
    /\ Len(encodes) >= 1 => Qualities[1] = 92
    /\ \A i \in 2..Len(encodes) :
          \/ Qualities[i] = Qualities[i - 1] - 6
          \/ Qualities[i] = 10 /\ Qualities[i - 1] = 14
    /\ \A i \in 1..Len(encodes) : Qualities[i] >= 10 /\ Qualities[i] <= 92

\* C9 witness: the encode at the floor has been made, after the encode at 14.
C9_Witness ==
    /\ Len(encodes) >= 2
    /\ Qualities[Len(encodes)] = 10
    /\ Qualities[Len(encodes) - 1] = 14

\* C10: every img.save call of one invocation is given the same exif value,
\* the one read from the original (its EXIF bytes, or None), and the loop
\* leaves exif_preserve as it was read.
C10_ExifSameAtEveryEncode ==
    /\ \A i \in 1..Len(encodes) : encodes[i].exif = c_in.exif
    /\ \A i, j \in 1..Len(encodes) : encodes[i].exif = encodes[j].exif
    /\ c_pc \in {"first_save", "loop", "done"} => exif_preserve = c_in.exif

\* C10 witness: the loop has re-encoded an image that carries EXIF bytes.
C10_Witness ==
    /\ iters >= 2
    /\ Len(encodes) = iters + 1
    /\ c_in.exif # None
    /\ encodes[Len(encodes)].exif = c_in.exif

\* C11: compress_to_target_jpeg raises only when the input bytes cannot be
\* decoded as an image: a call on a decodable image, with or without EXIF
\* and whatever the budget, never ends by raising.
C11_RaisesOnlyWhenUndecodable == c_pc = "raised" => ~c_in.decodable

(***************************************************************************)
(* Claims about the resolvers and the GPS utilities.                       *)
(***************************************************************************)
\* C12: the piexif and the exifread resolver return a coordinate only when
\* GPSLatitude, GPSLatitudeRef, GPSLongitude and GPSLongitudeRef are all
\* present; with any of them missing they return None, and what they return
\* is None or a pair.
C12_AllFourTagsOrNothing ==
    /\ u_call.fn = "_extract_gps_from_piexif_bytes" =>
          /\ ~u_call.res.exc
          /\ ~HasAllFourTags(u_call.arg.gps) => u_call.res.val = NoGps
          /\ u_call.res.val # NoGps => Len(u_call.res.val) = 2
    /\ u_call.fn = "_extract_gps_with_exifread" =>
          /\ ~u_call.res.exc
          /\ ~(/\ u_call.arg.lat.present /\ u_call.arg.lat_ref.present
               /\ u_call.arg.lon.present /\ u_call.arg.lon_ref.present)
             => u_call.res.val = NoGps
          /\ u_call.res.val # NoGps => Len(u_call.res.val) = 2

\* C12 witness: the piexif resolver has returned None for a GPS IFD that
\* lacks only GPSLatitudeRef, its rationals being well-formed.
C12_Witness ==
    /\ u_call.fn = "_extract_gps_from_piexif_bytes"
    /\ u_call.arg.loadable
    /\ u_call.arg.gps.lat_ref = <<>>
    /\ Len(u_call.arg.gps.lat) = 3 /\ Len(u_call.arg.gps.lon) = 3
    /\ u_call.arg.gps.lon_ref # <<>>
    /\ WellFormedIfd(u_call.arg.gps)
    /\ u_call.res.val = NoGps

\* Decimal degrees of one source value, as the stage that reads it decodes
\* it: three rationals and a reference, the text of three rationals and a
\* reference, an XMP decimal and its reference.
TextDd(dms, ref) == DmsToDd(dms[1], dms[2], dms[3], ref)
XmpDd(text, ref, negative) ==
    IF StartsWith(Upper(ref), negative)
    THEN 0 - Abs(XmpToFloat(text).val) ELSE XmpToFloat(text).val
\* <<degrees of the longitude source, degrees of the latitude source>> of
\* the source a stage reads.
SourceDegrees(impl, stage, in) ==
    CASE stage = "piexif_original" ->
           <<RationalsToDd(in.exif.gps.lon, in.exif.gps.lon_ref).val,
             RationalsToDd(in.exif.gps.lat, in.exif.gps.lat_ref).val>>
      [] stage = "derivative" ->
           <<RationalsToDd(in.derivative.exif.gps.lon, in.derivative.exif.gps.lon_ref).val,
             RationalsToDd(in.derivative.exif.gps.lat, in.derivative.exif.gps.lat_ref).val>>
      [] stage = "exifread_original" /\ impl = "service" ->
           <<TextDd(ParseExifreadDms(in.exifread.lon.text), in.exifread.lon_ref.text),
             TextDd(ParseExifreadDms(in.exifread.lat.text), in.exifread.lat_ref.text)>>
      [] stage = "exifread_original" /\ impl = "diag" ->
           <<CoordStrToDecimal(in.exifread.lon.text, in.exifread.lon_ref.text).val,
             CoordStrToDecimal(in.exifread.lat.text, in.exifread.lat_ref.text).val>>
      [] stage = "xmp" ->
           <<XmpDd(in.xmp.lon, in.xmp.lon_ref, "W"), XmpDd(in.xmp.lat, in.xmp.lat_ref, "S")>>
      [] stage = "iso6709" -> <<Float(in.iso.lon).val, Float(in.iso.lat).val>>

\* C13: every coordinate a stage returns (binary EXIF, text EXIF, XMP,
\* ISO6709, derivative) is the pair whose first component is the decimal
\* value of that stage's longitude source and whose second is that of its
\* latitude source; the pipeline returns the pair of the stage that yielded
\* it unchanged; and ingest, when it takes the pipeline's coordinate, builds
\* Point(x = longitude, y = latitude) from it.
C13_LongitudeFirst ==
    /\ \A i \in 1..Len(g_trace) :
          g_trace[i].result # NoGps =>
              g_trace[i].result = SourceDegrees(g_impl, g_trace[i].stage, g_in)
    /\ g_ret # NoGps => g_ret = g_trace[Len(g_trace)].result
    /\ (g_pc = "resolved" /\ (payload.lon = <<>> \/ payload.lat = <<>>)) =>
          geom = Point(g_trace[Len(g_trace)].result[1], g_trace[Len(g_trace)].result[2])

\* C13 witness: ingest has built its Point from the coordinate the binary
\* tags of the original decode to, whose longitude and latitude differ.
C13_Witness ==
    /\ g_pc = "resolved" /\ payload = NoPayload
    /\ g_trace[Len(g_trace)].stage = "piexif_original"
    /\ geom.x = RationalsToDd(g_in.exif.gps.lon, g_in.exif.gps.lon_ref).val
    /\ geom.y = RationalsToDd(g_in.exif.gps.lat, g_in.exif.gps.lat_ref).val
    /\ geom.x # geom.y

\* C14: for non-negative d, m, s and every reference, _dms_to_dd returns a
\* value of magnitude d + m/60 + s/3600 that is negative exactly when the
\* reference is S or W in either case ('s' and 'w' negate as 'S' and 'W' do).
C14_NegativeIffSouthWestAnyCase ==
    u_call.fn = "_dms_to_dd" =>
        /\ Abs(u_call.res.val) =
               (u_call.arg.d * Scale) + ((u_call.arg.m * Scale) \div 60)
               + ((u_call.arg.s * Scale) \div 3600)
        /\ u_call.res.val # 0 =>
               (u_call.res.val < 0 <=> Upper(u_call.arg.ref) \in {<<"S">>, <<"W">>})

\* A rational of the value tags has a zero denominator; the text of a value
\* tag holds a fraction "n/0".
ZeroDenominator(g) ==
    \/ \E i \in 1..Len(g.lat) : g.lat[i][2] = 0
    \/ \E i \in 1..Len(g.lon) : g.lon[i][2] = 0
ZeroDenominatorText(text) ==
    \E i \in 1..(Len(text) - 1) :
        /\ text[i] = "/" /\ text[i + 1] = "0"
        /\ (i + 2 <= Len(text) => text[i + 2] \notin Digits)

\* C15: a rational with denominator 0 is an error the callers handle: the
\* conversion of (n, 0) by _ratio_to_float and of "n/0" by
\* _parse_exifread_frac yields no number (it raises), and a resolver that
\* meets one in its value tags does not raise and computes no coordinate
\* from it.
C15_ZeroDenominatorUnusable ==
    /\ (u_call.fn = "_ratio_to_float" /\ u_call.arg[2] = 0) => u_call.res.exc
    /\ (u_call.fn = "_parse_exifread_frac" /\ ZeroDenominatorText(u_call.arg)) =>
          u_call.res.exc
    /\ (/\ u_call.fn = "_extract_gps_from_piexif_bytes"
        /\ u_call.arg.loadable /\ HasAllFourTags(u_call.arg.gps)
        /\ ZeroDenominator(u_call.arg.gps)) =>
          u_call.res = Ok(NoGps)
    /\ (/\ u_call.fn = "_extract_gps_with_exifread"
        /\ ~u_call.arg.raises
        /\ \/ ZeroDenominatorText(u_call.arg.lat.text)
           \/ ZeroDenominatorText(u_call.arg.lon.text)) =>
          u_call.res = Ok(NoGps)

\* C15 witness: the binary-tag resolver has been called on a GPS IFD with all
\* four tags and a zero denominator in one rational, and has returned None.
C15_Witness ==
    /\ u_call.fn = "_extract_gps_from_piexif_bytes"
    /\ u_call.arg.loadable /\ HasAllFourTags(u_call.arg.gps)
    /\ ZeroDenominator(u_call.arg.gps)
    /\ u_call.res = Ok(NoGps)

\* The comma-separated components of a text, brackets removed.
Components(text) == ExifreadParts(Split(Remove(Remove(Strip(text), "["), "]"), ","))

\* C16: _parse_exifread_dms never raises; it returns None for text with fewer
\* than two comma-separated components, and for text with exactly two
\* components it returns a triple (deg, min, 0).
C16_TwoComponentsDefaultSeconds ==
    u_call.fn = "_parse_exifread_dms" =>
        /\ ~u_call.res.exc
        /\ Len(Components(u_call.arg)) < 2 => u_call.res.val = <<>>
        /\ Len(Components(u_call.arg)) = 2 =>
              (Len(u_call.res.val) = 3 /\ u_call.res.val[3] = 0)

\* C16 amended: _parse_exifread_dms never raises; it returns None for text
\* with fewer than two components; for exactly two components that both
\* convert to a number it returns (deg, min, 0), and None when one of the
\* two does not convert.
C16_TwoNumericComponentsDefaultSeconds ==
    u_call.fn = "_parse_exifread_dms" =>
        /\ ~u_call.res.exc
        /\ Len(Components(u_call.arg)) < 2 => u_call.res.val = <<>>
        /\ Len(Components(u_call.arg)) = 2 =>
              u_call.res.val =
                  IF \/ ParseExifreadFrac(Components(u_call.arg)[1]).exc
                     \/ ParseExifreadFrac(Components(u_call.arg)[2]).exc
                  THEN <<>>
                  ELSE <<ParseExifreadFrac(Components(u_call.arg)[1]).val,
                         ParseExifreadFrac(Components(u_call.arg)[2]).val, 0>>

\* C16 witness: the text "[1/2, 30]" has been parsed to (0.5, 30, 0).
C16_Witness ==
    /\ u_call.fn = "_parse_exifread_dms"
    /\ u_call.arg = <<"[", "1", "/", "2", ",", " ", "3", "0", "]">>
    /\ u_call.res = Ok(<<Scale \div 2, 30 * Scale, 0>>)

\* C17: every coordinate the pipeline returns and every coordinate ingest
\* builds its Point from has its longitude in [-180, 180] and its latitude
\* in [-90, 90].
C17_WithinRange ==
    /\ g_ret # NoGps =>
          (Abs(g_ret[1]) <= 180 * Scale /\ Abs(g_ret[2]) <= 90 * Scale)
    /\ g_pc = "resolved" =>
          (Abs(geom.x) <= 180 * Scale /\ Abs(geom.y) <= 90 * Scale)

(***************************************************************************)
(* Claims about extract_captured_at.                                       *)
(***************************************************************************)
\* The timestamp a tag value parses to, None when it does not parse.
Parsed(raw) == CatchNone(ParseStamp(raw)).val
\* piexif has decoded the EXIF block of the image.
Readable(img) == img.present /\ img.loadable
\* What the text fallback alone yields on the original bytes.
Fallback(in) == CapturedAtFromExifread(in.data).val

\* C18: the sources are taken in strict priority, EXIF DateTimeOriginal, else
\* DateTimeDigitized, else 0th DateTime, and only when the structured decode
\* yields none of them the text fallback on the original bytes; a source
\* that is missing or does not parse counts as absent, and a lower-priority
\* source is used only when every higher-priority one is absent.
C18_StrictPriority ==
    u_call.fn = "extract_captured_at" =>
        u_call.res.val =
            IF Readable(u_call.arg.img) /\ Parsed(u_call.arg.img.dates.original) # NoDate
            THEN Parsed(u_call.arg.img.dates.original)
            ELSE IF Readable(u_call.arg.img) /\ Parsed(u_call.arg.img.dates.digitized) # NoDate
            THEN Parsed(u_call.arg.img.dates.digitized)
            ELSE IF Readable(u_call.arg.img) /\ Parsed(u_call.arg.img.dates.datetime) # NoDate
            THEN Parsed(u_call.arg.img.dates.datetime)
            ELSE Fallback(u_call.arg)

\* The timestamp written in the first 19 characters of a value, read by
\* position, tagged UTC.
StampAt(raw) ==
    <<DigitsValue(SubSeq(raw, 1, 4)), DigitsValue(SubSeq(raw, 6, 7)),
      DigitsValue(SubSeq(raw, 9, 10)), DigitsValue(SubSeq(raw, 12, 13)),
      DigitsValue(SubSeq(raw, 15, 16)), DigitsValue(SubSeq(raw, 18, 19)), "UTC">>
\* The tag values of an input.
TagValuesOf(in) ==
    {in.img.dates.original, in.img.dates.digitized, in.img.dates.datetime,
     in.data.original, in.data.datetime}

\* C19: extract_captured_at never raises, whatever the tags hold; a value it
\* returns is tagged UTC and is the timestamp written in the first 19
\* characters of one of the tags; and a tag whose first 19 characters are a
\* well-formed stamp is accepted whatever follows them.
C19_First19CharactersUtc ==
    u_call.fn = "extract_captured_at" =>
        /\ ~u_call.res.exc
        /\ u_call.res.val # NoDate =>
              \E raw \in TagValuesOf(u_call.arg) :
                  Len(raw) >= 19 /\ u_call.res.val = StampAt(raw)
        /\ (/\ ~Readable(u_call.arg.img)
            /\ u_call.arg.data.given /\ ~u_call.arg.data.raises
            /\ Len(u_call.arg.data.original) >= 19
            /\ ~Strptime(SubSeq(u_call.arg.data.original, 1, 19)).exc) =>
              u_call.res.val = StampAt(u_call.arg.data.original)

\* C19 witness: DateTimeOriginal is the all-zero stamp, and the call has
\* returned 2024-02-29 10:20:30 UTC from a 22-character tag of the fallback.
C19_Witness ==
    /\ u_call.fn = "extract_captured_at"
    /\ Readable(u_call.arg.img)
    /\ u_call.arg.img.dates.original = Stamp(0, 0, 0, 0, 0, 0)
    /\ Len(u_call.arg.data.original) = 22
    /\ u_call.res = Ok(<<2024, 2, 29, 10, 20, 30, "UTC">>)

C21_ManualNeverReplaced ==
    /\ g_pc = "resolved" =>
          /\ payload.lon # <<>> => geom.x = payload.lon[1]
          /\ payload.lat # <<>> => geom.y = payload.lat[1]
          /\ payload = NoPayload => geom = Point(g_ret[1], g_ret[2])
    /\ g_pc = "http_400" =>
          (g_ret = NoGps /\ (payload.lon = <<>> \/ payload.lat = <<>>))

\* The request has ended in an error before db.commit returned: the fetch
\* failed, the bytes could not be compressed, no coordinate was available,
\* or the commit itself failed.
IngestFailed ==
    \/ i_pc = "http_400"
    \/ i_pc = "raised" /\ i_steps[Len(i_steps)] # "refresh"

\* C22: when ingest_sftp ends in an error (fetch failure, undecodable bytes,
\* no coordinate) the record store is as it was before the request; a row
\* is in the store only after fetch, compression, metadata extraction and
\* coordinate resolution have all been done, and a request adds at most one
\* row.
C22_StoreUnchangedOnError ==
    /\ IngestFailed => db = StoreOf(i_in.stored)
    /\ Len(db) <= i_in.stored + 1
    /\ Len(db) > i_in.stored =>
          /\ SubSeq(i_steps, 1, 7) =
                 <<"fetch_bytes", "compress_to_target_jpeg", "extract_exif",
                   "extract_gps_from_original", "extract_captured_at",
                   "add", "commit">>
          /\ db = Append(StoreOf(i_in.stored), PhotoRow(geom))

\* C22 witness: a request for which no coordinate was available has ended
\* with 400 and the store, one earlier row, as it was.
C22_Witness ==
    /\ i_pc = "http_400" /\ Len(i_steps) = 5 /\ g_ret = NoGps
    /\ i_in.stored = 1 /\ db = StoreOf(1)

\* C23: ingest_sftp calls fetch_bytes once per request; when the call fails
\* the request ends with 400 at once, with no second call and without
\* compression, GPS resolution or storage.
C23_FetchOnceThen400 ==
    /\ Len(SelectSeq(i_steps, LAMBDA x : x = "fetch_bytes")) <= 1
    /\ i_pc \notin {"idle", "fetch"} => i_steps[1] = "fetch_bytes"
    /\ (i_pc \notin {"idle", "fetch"} /\ ~i_in.fetch_ok) =>
          /\ i_pc = "http_400"
          /\ i_steps = <<"fetch_bytes">>
          /\ db = StoreOf(i_in.stored) /\ g_ret = NoGps /\ geom = NoPoint

\* C23 witness: a request whose fetch failed has ended with 400 after that
\* one call.
C23_Witness == i_pc = "http_400" /\ ~i_in.fetch_ok /\ i_steps = <<"fetch_bytes">>

(***************************************************************************)
(* Claims about extract_exif.                                              *)
(***************************************************************************)
KeysOf(items) == {items[i][1] : i \in 1..Len(items)}

\* C24: in extract_exif the second pass (Pillow getexif) never overwrites
\* or removes an entry written by the first pass (piexif): the keys of the
\* two passes are disjoint, every key of the first pass still maps to the
\* value the first pass gave it, and the call returns a mapping without
\* raising whether or not a pass failed.
C24_SecondPassKeepsFirst ==
    u_call.fn = "extract_exif" =>
        /\ ~u_call.res.exc
        /\ KeysOf(PiexifItems(u_call.arg)) \cap KeysOf(PillowItems(u_call.arg)) = {}
        /\ \A i \in 1..Len(PiexifItems(u_call.arg)) :
              /\ PiexifItems(u_call.arg)[i][1] \in DOMAIN u_call.res.val
              /\ u_call.res.val[PiexifItems(u_call.arg)[i][1]]
                    = PiexifItems(u_call.arg)[i][2]
        /\ u_call.arg.exif # "loaded" =>
              DOMAIN u_call.res.val = KeysOf(PillowItems(u_call.arg))

\* Both passes wrote the same tag of the primary IFD, and both entries are
\* in the mapping.
C24_Witness ==
    /\ u_call.fn = "extract_exif"
    /\ u_call.arg.exif = "loaded"
    /\ u_call.arg.exif_dict = << <<(<<"0", "t", "h">>), 271, <<"x">> >> >>
    /\ u_call.arg.raw = << <<271, <<"y">> >> >>
    /\ u_call.res.val[<<"0", "t", "h", ".", "M", "a", "k", "e">>] = <<"b", "'", "x", "'">>
    /\ u_call.res.val[<<"M", "a", "k", "e">>] = <<"y">>

(***************************************************************************)
(* Claims about the two EXIF resolvers.                                    *)
(***************************************************************************)
\* C25: on a GPS IFD that gives degrees, minutes and seconds and a
\* hemisphere reference for both latitude and longitude, the text-tag path
\* and the binary-tag path of a copy produce the same result, whatever the
\* values and whatever the references.
C25_TextPathEqualsBinaryPath ==
    (/\ u_call.fn = "gps_from_both_paths"
     /\ HasAllFourTags(u_call.arg.gps)
     /\ Len(u_call.arg.gps.lat) = 3
     /\ Len(u_call.arg.gps.lon) = 3)
        => u_call.res.val.text = u_call.res.val.binary

(***************************************************************************)
(* Claims about the quality search of compress_to_target_jpeg.             *)
(***************************************************************************)
\* C26: when compress_to_target_jpeg returns, every encode before the one
\* returned was larger than target_bytes and the returned bytes are the
\* encoding of the highest attempted quality that is within target_bytes;
\* when the encode at quality 92 is within target_bytes it is the only
\* encode and it is returned.
C26_ReturnedIsHighestThatFits ==
    c_pc = "done" =>
        /\ \A i \in 1..(Len(encodes) - 1) : ~encodes[i].fits
        /\ c_ret.bytes.quality = encodes[Len(encodes)].quality
        /\ c_ret.bytes.size <= c_in.target_bytes
        /\ encodes[1].fits => Len(encodes) = 1 /\ c_ret.bytes.quality = StartQuality

\* C26 as the code has it: every encode before the one returned was larger
\* than target_bytes and the last encode is returned; it is within
\* target_bytes exactly when some attempted quality is, and is then the
\* highest such quality; when no attempted quality is, the returned bytes
\* are the encode at quality 10, larger than target_bytes.  An encode at
\* quality 92 within target_bytes is the only encode.
C26_ReturnedIsHighestThatFitsOrFloor ==
    c_pc = "done" =>
        /\ \A i \in 1..(Len(encodes) - 1) : ~encodes[i].fits
        /\ c_ret.bytes = b
        /\ c_ret.bytes.quality = encodes[Len(encodes)].quality
        /\ c_ret.bytes.size <= c_in.target_bytes <=> encodes[Len(encodes)].fits
        /\ ~encodes[Len(encodes)].fits => c_ret.bytes.quality = MinQuality
        /\ encodes[1].fits => Len(encodes) = 1 /\ c_ret.bytes.quality = StartQuality

\* C26 witness: a call has returned its third encode, the first one within
\* target_bytes, at a quality between the floor and 92.
C26_Witness ==
    /\ c_pc = "done"
    /\ Len(encodes) = iters + 1
    /\ iters = 2
    /\ ~encodes[1].fits /\ ~encodes[iters].fits
    /\ encodes[Len(encodes)].fits
    /\ c_ret.bytes.quality = StartQuality - iters * Step
    /\ c_ret.bytes.size <= c_in.target_bytes

(***************************************************************************)
(* Claims about SFTPClient.                                                *)
(***************************************************************************)
\* C27: when fetch_bytes or healthy has returned or raised, the transport
\* the call opened is closed, and so is its SFTP session: after a
\* successful read, after a failure to connect or authenticate, to create
\* the session, to open or read the file, or to list the base path.
C27_TransportClosedOnExit ==
    s_pc \in {"returned", "raised"} =>
        s_transport # "open" /\ s_sftp # "open"

(***************************************************************************)
(* Claims about the routes.                                                *)
(***************************************************************************)
\* C28: GET /photos/search is dispatched to search and GET /photos/viewer
\* to viewer; neither goes to get_meta, the handler of /photos/{photo_id}.
C28_SearchAndViewerReached ==
    (u_call.fn = "dispatch" /\ u_call.arg.method = "GET") =>
        /\ u_call.arg.path = <<"search">> => u_call.res.val = "search"
        /\ u_call.arg.path = <<"viewer">> => u_call.res.val = "viewer"

(***************************************************************************)
(* Claims about unusable timestamp tags.                                   *)
(***************************************************************************)
\* C29: when the EXIF DateTimeOriginal is present and does not parse while
\* DateTimeDigitized, or else the 0th DateTime, holds a well-formed value,
\* extract_captured_at returns that well-formed value, not None.
C29_WellFormedLowerPriorityReturned ==
    (/\ u_call.fn = "extract_captured_at"
     /\ Readable(u_call.arg.img)
     /\ u_call.arg.img.dates.original # <<>>
     /\ Parsed(u_call.arg.img.dates.original) = NoDate
     /\ \/ Parsed(u_call.arg.img.dates.digitized) # NoDate
        \/ Parsed(u_call.arg.img.dates.datetime) # NoDate)
        => /\ u_call.res.val # NoDate
           /\ u_call.res.val \in {Parsed(u_call.arg.img.dates.digitized),
                                  Parsed(u_call.arg.img.dates.datetime)}

====
